---- MODULE Spec2Model ----
(***************************************************************************)
(* Cluster lifecycle of microcluster: the database coordinator with its    *)
(* schema / API-extension fence, join-token admission, request             *)
(* authentication and member removal.                                      *)
(***************************************************************************)
EXTENDS Integers, Sequences, FiniteSets, TLC

(***************************************************************************)
(* Bounds and fixed inputs                                                 *)
(***************************************************************************)
\* Highest schema version a member row may carry.
MaxVer == 2

\* The member this daemon runs as (db.memberName()) and the other members.
LocalName == "c3"
Peers == {"c1", "c2"}
Names == Peers \cup {LocalName}
\* Order in which a SELECT over core_cluster_members returns the rows.
MemberOrder == <<"c1", "c2", "c3">>

\* SQL NULL in the api_extensions column.
Nil == <<"NULL">>

\* Versions the local binary is compiled with (newSchema.Version(), ext).
LocalVersion == [int |-> 1, ext |-> 1, api |-> <<"a", "b">>]

\* API extension lists a member row may carry.
ExtLists == {Nil, <<"a">>, <<"a", "b">>, <<"a", "b", "c">>}

Versions == 0..MaxVer

\* Number of admission requests (POST /cluster) in flight.
MaxReq == 2
Requests == 1..MaxReq

\* Number of concurrent callers of Accept on one listener, and of
\* UpdateTLS calls on one endpoint. Certificate 0 is the one the endpoint
\* was created with; the k-th UpdateTLS brings certificate k.
MaxAcc == 2
MaxUpd == 2
Acceptors == 1..MaxAcc

\* Number of concurrent PATCH /database requests.
MaxNotify == 2
Notifiers == 1..MaxNotify

\* Daemons started on the same state directory and the same address.
MaxDaemon == 2
Daemons == 1..MaxDaemon

\* Number of engine connections being set up, what a request to
\* POST /core/internal/database may carry in X-Dqlite-Version and in
\* Upgrade, and what an answer may carry as status and as Upgrade.
MaxDial == 2
Dials == 1..MaxDial
VersionHeaders == {"", "0", "1", "x"}
UpgradeHeaders == {"", "dqlite", "h2c"}
StatusCodes == {101, 200, 400, 426}

\* Row ids the member table may hand out (AUTOINCREMENT).
MaxId == 4

\* Concurrent callers of UpdateServers, ReloadCert and ExtensionServers,
\* and of State().Stop with its exit callback; what the ExtensionServers
\* argument of Run may hold.
MaxCall == 2
Callers == 1..MaxCall
MaxExit == 2
Exits == 1..MaxExit
ServerNameKinds == {"ok", "notFQDN", "reserved"}
LockedCalls == {"UpdateServers", "ReloadCert", "ExtensionServers"}

\* Labels of API extensions and the longest list a build carries; the
\* number of other members whose lists the fence reads.
Labels == {"a", "x"}
MaxLabels == 2
MaxOthers == 2

\* Number of callers of the daemon's stop function.
MaxStop == 2
Stoppers == 1..MaxStop

\* The secrets a joiner may present.
Secrets == {"s1", "s2"}

\* Number of POST /control requests in flight, and of server keypairs the
\* daemon may generate after its first one.
MaxCtl == 2
MaxGen == 2
Ctl == 1..MaxCtl

\* Number of candidate addresses in a join token, and how the member
\* behind an address behaves: down (no connection), badcert (presents a
\* certificate that is not the token's), error (answers with an error and
\* touches nothing), ok (runs the admission and answers), lossy (runs the
\* admission; the answer does not arrive).
MaxCand == 2
Candidates == 1..MaxCand
\* What a member answers to the request that runs its OnNewMember hook:
\* no error, 503 while it is itself starting, or the hook's error.
HookAnswers == {"ok", "unavailable", "error"}

PeerModes == {"down", "badcert", "error", "ok", "lossy"}

\* Addresses as text: <<ip, zone, port>>; anything else does not parse.
Addresses == {<<"10.0.0.1", "", "8443">>, <<"fe80::1", "eth0", "8443">>}
HostHeaders ==
    Addresses \cup {<<"fe80::1", "", "8443">>, <<"10.0.0.2", "", "8443">>}

\* Certificates a TLS peer may present, and the trusted ones.
PeerCerts == {"t", "u"}
TrustedCerts == {"t"}

\* The name in the first server certificate (the hostname), and a new one.
ControlNames == {"c3", "c4"}

Roles == {"PENDING", "voter", "standby", "spare"}

VARIABLES
    status,            \* DqliteDB.status
    pc,                \* position of the goroutine running Bootstrap / Join
    bootstrap,         \* the bootstrap argument of Open
    openErr,           \* the error waitUpgrade / Open is about to return
    otherNodesBehind,  \* waitUpgrade's otherNodesBehind
    members,           \* replicated table core_cluster_members, by name
    schemaRow,         \* replicated table schemas: the committed versions
    cancelled,         \* db.ctx has been cancelled (Stop)
    fence,             \* what the current fence pass has read (history)
    txPc,              \* position of a caller of Transaction
    lastTx,            \* outcome of the last Transaction call (history)
    tokens,            \* replicated table core_token_records
    trust,             \* names held by the local trust store
    txOwner,           \* the request whose transaction holds the database
    snapshot,          \* the tables as they were when it began
    admPc,             \* position of each admission request
    admReq,            \* the member name and secret each one presents
    admRes,            \* the response each one got
    lastRemove,        \* outcome of the last DELETE /cluster/{name} (history)
    serverCert,        \* Daemon.serverCert
    diskServerCert,    \* the server keypair in the state directory
    endpoints,         \* Daemon.endpoints: the certificate of each listener
    ctlPc,             \* position of each POST /control request
    ctlReq,            \* the body of each one
    hostAddress,       \* the address the daemon advertises
    swapped,           \* the core listener has been given the cluster cert
    daemon,            \* the daemon process: running, or exited for a re-exec
    lastAuth,          \* outcome of the last Authenticate call (history)
    hookLog,           \* the hooks this daemon has run
    jPc,               \* position of the joiner in POST /control
    jIdx,              \* joinWithToken: index into token.JoinAddresses
    jLog,              \* what each candidate tried so far was sent and said
    jInfo,             \* joinInfo: 0 (nil) or the candidate that admitted
    jErr,              \* the error POST /control returns
    jMatches,          \* certNameMatches
    peerMode,          \* how the member behind each candidate address behaves
    peerTrust,         \* the members whose trust store holds the joiner
    jSteps,            \* hooks and steps of the join so far (history)
    jNotify,           \* what each member's OnNewMember hook answered
    runPc,             \* position of Daemon.Run
    dbHandle,          \* Daemon.db: nil, open, closed, closeFailed
    listeners,         \* Daemon.endpoints: nil, up, closed, closeFailed
    readyClosed,       \* Daemon.ReadyChan has been closed
    shutdownCancelled, \* Daemon.shutdownCtx has been cancelled
    oncePc,            \* the sync.OnceValue behind Daemon.stop: new, running,
                       \* done
    onceVal,           \* the value it holds once done
    stopPc,            \* position of each caller of Daemon.stop
    stopRes,           \* what each caller got back
    bodyPc,            \* position inside the stop sequence
    dqliteErr,         \* the stop sequence's dqliteErr is not nil
    stopLog,           \* the steps of the stop sequence, in order (history)
    rdPc,              \* position of a GET /ready handler
    lastReady,         \* outcome of the last GET /ready (history)
    nCert,             \* Network.cert
    nListener,         \* Network.listener: nil, bound, closed
    lConfig,           \* mutableTLSListener.config
    lRead,             \* the Accept calls holding mutableTLSListener.mu.RLock
    lWrite,            \* a Config call holds mutableTLSListener.mu.Lock
    updPc,             \* position of the caller of Network.UpdateTLS
    updCert,           \* the certificate it was called with
    updCount,          \* number of UpdateTLS calls so far
    lastConfigDone,    \* certificate of the last Config that returned
    lastUpdateDone,    \* certificate of the last UpdateTLS that returned
    accPc,             \* position of each caller of Accept
    accCfg,            \* the configuration each one read
    accSeen,           \* lastConfigDone and lastUpdateDone when it called
    lastConn,          \* the last connection each one returned (history)
    notPc,             \* position of each PATCH /database request
    notRes,            \* how its NotifyUpgraded call went (history)
    skPc,              \* position of each daemon in Socket.Listen
    sockFile,          \* whose socket the control path names, 0: no file
    sockOpen,          \* the daemons holding an open unix listener
    nwPc,              \* each daemon's network endpoint
    addrHolder,        \* who holds the network address, 0: nobody
    hs,                \* each engine connection: request, answer, outcome
    apx,               \* the API extension lists compared and the verdict
    tab,               \* core_cluster_members as rows with ids, last call
    hb,                \* position of the loopHeartbeat goroutine
    sqlDb,             \* DB.db, the SQL handle: nil, open, closed
    engine,            \* DB.dqlite, the engine: nil, running, closed
    dst,               \* the call of DB.Stop: position, what it closed
    extensionServersMu,\* Daemon.extensionServersMu: writer, readers, waiting
    muHeld,            \* acquisitions Run, init, StartAPI have not released
    mainPc,            \* position of the goroutine in Daemon.Run
    apiPc,             \* position of a StartAPI call made by POST /control
    callPc,            \* the call each caller makes and its position
    parentDone,        \* the context handed to Run has been cancelled
    exitPc             \* position of each caller of State().Stop and exit

dbVars == <<status, pc, bootstrap, openErr, otherNodesBehind, members,
            schemaRow, cancelled, fence, txPc, lastTx>>

memVars == <<tokens, trust, txOwner, snapshot, admPc, admReq, admRes,
             lastRemove>>

authVars == <<serverCert, diskServerCert, endpoints, ctlPc, ctlReq,
              hostAddress, swapped, daemon, lastAuth, hookLog>>

joinVars == <<jPc, jIdx, jLog, jInfo, jErr, jMatches, peerMode, peerTrust,
              jSteps, jNotify>>

runVars == <<runPc, dbHandle, listeners, readyClosed, shutdownCancelled,
             oncePc, onceVal, stopPc, stopRes, bodyPc, dqliteErr, stopLog,
             rdPc, lastReady>>

tlsVars == <<nCert, nListener, lConfig, lRead, lWrite, updPc, updCert,
             updCount, lastConfigDone, lastUpdateDone, accPc, accCfg, accSeen,
             lastConn>>

notVars == <<notPc, notRes>>

lsnVars == <<skPc, sockFile, sockOpen, nwPc, addrHolder>>

stopVars == <<hb, sqlDb, engine, dst>>

svcVars == <<extensionServersMu, muHeld, mainPc, apiPc, callPc, parentDone,
             exitPc>>

\* The variables outside the coordinator's, the membership's and the
\* daemon's other than those of DB.Stop and of the heartbeat.
extRest == <<joinVars, runVars, tlsVars, notVars, lsnVars, hs, apx, tab,
             svcVars>>

opVars == <<lsnVars, hs, apx, tab, stopVars, svcVars>>

extVars == <<joinVars, runVars, tlsVars, notVars, opVars>>

vars == <<dbVars, memVars, authVars, extVars>>

(***************************************************************************)
(* Pure helpers                                                            *)
(***************************************************************************)
\* The names present in the table, in SELECT order.
RECURSIVE PresentFrom(_, _)
PresentFrom(i, tbl) ==
    IF i > Len(MemberOrder) THEN <<>>
    ELSE IF MemberOrder[i] \in DOMAIN tbl
         THEN <<MemberOrder[i]>> \o PresentFrom(i + 1, tbl)
         ELSE PresentFrom(i + 1, tbl)

\* update.GetClusterMemberSchemaVersions: one column of every row.
ColumnOf(tbl, col) ==
    LET names == PresentFrom(1, tbl)
    IN [i \in 1..Len(names) |-> tbl[names[i]][col]]

\* checkSchemaVersion: scan the versions in order; a larger version is an
\* error at once, a smaller one is remembered.
RECURSIVE checkSchemaVersionFrom(_, _, _, _)
checkSchemaVersionFrom(schemaVersion, versions, i, nodeIsBehind) ==
    IF i > Len(versions) THEN [behind |-> nodeIsBehind, err |-> FALSE]
    ELSE IF schemaVersion = versions[i]
         THEN checkSchemaVersionFrom(schemaVersion, versions, i + 1,
                                     nodeIsBehind)
         ELSE IF schemaVersion > versions[i]
              THEN checkSchemaVersionFrom(schemaVersion, versions, i + 1, TRUE)
              ELSE [behind |-> FALSE, err |-> TRUE]

\* A scan that reports nothing, whatever the versions are.
checkSchemaVersionLax(schemaVersion, versions) ==
    [behind |-> FALSE, err |-> FALSE]

checkSchemaVersion(schemaVersion, versions) ==
    checkSchemaVersionFrom(schemaVersion, versions, 1, FALSE)

\* extensions.Extensions.Version: the number of labels (0 for a nil list).
ExtVersion(e) == IF e = Nil THEN 0 ELSE Len(e)

\* extensions.Extensions.IsSameVersion: same length and same labels.
IsSameVersion(a, b) ==
    /\ ExtVersion(a) = ExtVersion(b)
    /\ \A i \in 1..ExtVersion(a) : a[i] = b[i]

\* checkAPIExtensions: same scan over the members' extension lists.
RECURSIVE checkAPIExtensionsFrom(_, _, _, _)
checkAPIExtensionsFrom(current, lists, i, nodeIsBehind) ==
    IF i > Len(lists) THEN [behind |-> nodeIsBehind, err |-> FALSE]
    ELSE IF IsSameVersion(current, lists[i])
         THEN checkAPIExtensionsFrom(current, lists, i + 1, nodeIsBehind)
         ELSE IF lists[i] = Nil \/ ExtVersion(current) > ExtVersion(lists[i])
              THEN checkAPIExtensionsFrom(current, lists, i + 1, TRUE)
              ELSE [behind |-> FALSE, err |-> TRUE]

\* The two lists carry different labels at a position both have.
Mismatch(a, b) ==
    \E i \in 1..ExtVersion(a) : i <= ExtVersion(b) /\ a[i] # b[i]

\* A comparison by prefix: any mismatch and any longer list is an error.
checkAPIExtensionsByPrefix(current, lists) ==
    IF \E i \in 1..Len(lists) :
          \/ Mismatch(current, lists[i])
          \/ ExtVersion(lists[i]) > ExtVersion(current)
    THEN [behind |-> FALSE, err |-> TRUE]
    ELSE [behind |-> \E i \in 1..Len(lists) :
                        ExtVersion(lists[i]) < ExtVersion(current),
          err |-> FALSE]

checkAPIExtensions(current, lists) ==
    checkAPIExtensionsFrom(current, lists, 1, FALSE)

(***************************************************************************)
(* The replicated tables                                                   *)
(***************************************************************************)
EmptyTable == [n \in {} |-> 0]

MemberRow(addr, int, ext, api, role) ==
    [address |-> addr, schema_internal |-> int, schema_external |-> ext,
     api_extensions |-> api, role |-> role]

AddressOf(n) == n

\* update.UpdateClusterMemberSchemaVersion
UpdateClusterMemberSchemaVersion(tbl, int, ext, name) ==
    [tbl EXCEPT ![name].schema_internal = int, ![name].schema_external = ext]

\* update.UpdateClusterMemberAPIExtensions
UpdateClusterMemberAPIExtensions(tbl, api, name) ==
    [tbl EXCEPT ![name].api_extensions = api]

\* What one fence pass has read so far.
FenceNone == [schemaRead |-> FALSE, schemaEqual |-> FALSE,
              apiRead |-> FALSE, apiEqual |-> FALSE,
              ahead |-> FALSE, behind |-> FALSE, clean |-> FALSE,
              migrated |-> FALSE]

\* A member list extends / is extended by the local list.
IsProperPrefix(a, b) ==
    /\ a # Nil
    /\ b # Nil
    /\ Len(a) < Len(b)
    /\ \A i \in 1..Len(a) : a[i] = b[i]

RowEqual(r) ==
    /\ r.schema_internal = LocalVersion.int
    /\ r.schema_external = LocalVersion.ext
    /\ r.api_extensions = LocalVersion.api

RowAhead(r) ==
    \/ r.schema_internal > LocalVersion.int
    \/ r.schema_external > LocalVersion.ext
    \/ IsProperPrefix(LocalVersion.api, r.api_extensions)

RowBehind(r) ==
    \/ r.schema_internal < LocalVersion.int
    \/ r.schema_external < LocalVersion.ext
    \/ r.api_extensions = Nil
    \/ IsProperPrefix(r.api_extensions, LocalVersion.api)

\* Every component of the row is equal to or behind the local one.
RowNotAhead(r) ==
    /\ r.schema_internal <= LocalVersion.int
    /\ r.schema_external <= LocalVersion.ext
    /\ \/ r.api_extensions = Nil
       \/ r.api_extensions = LocalVersion.api
       \/ IsProperPrefix(r.api_extensions, LocalVersion.api)

(***************************************************************************)
(* DqliteDB: Bootstrap, Join, Open and waitUpgrade                         *)
(***************************************************************************)
\* A status gate that also lets a starting database through.
TransactionAcceptsStarting(s) == s \in {"Starting", "Waiting", "Ready"}

\* DqliteDB.Transaction: the statuses in which a transaction is run.
TransactionAccepts(s) == ~(s # "Waiting" /\ s # "Ready")

\* DB.Bootstrap up to the call of Open: a new engine with an empty database.
Bootstrap(ok) ==
    /\ pc = "idle"
    /\ DOMAIN members = {}
    /\ bootstrap' = TRUE
    /\ pc' = IF ok THEN "open" ELSE "failed"
    /\ engine' = IF ok THEN "running" ELSE engine
    /\ UNCHANGED <<status, openErr, otherNodesBehind, members, schemaRow,
                   cancelled, fence, txPc, lastTx, memVars, authVars,
                   extRest, hb, sqlDb, dst>>

\* DB.Join up to the first call of Open: an engine joined to the cluster.
Join(ok) ==
    /\ pc = "idle"
    /\ LocalName \in DOMAIN members
    /\ bootstrap' = FALSE
    /\ pc' = IF ok THEN "open" ELSE "failed"
    /\ engine' = IF ok THEN "running" ELSE engine
    /\ UNCHANGED <<status, openErr, otherNodesBehind, members, schemaRow,
                   cancelled, fence, txPc, lastTx, memVars, authVars,
                   extRest, hb, sqlDb, dst>>

\* Open, first statements: the status becomes Starting.
OpenStart ==
    /\ pc = "open"
    /\ status' = "Starting"
    /\ openErr' = "nil"
    /\ otherNodesBehind' = FALSE
    /\ fence' = FenceNone
    /\ pc' = "ready"
    /\ UNCHANGED <<bootstrap, members, schemaRow, cancelled,
                   txPc, lastTx, memVars, authVars,
                   extVars>>

\* Open: db.dqlite.Ready(ctx) and db.dqlite.Open.
EngineReady(ok) ==
    /\ pc = "ready"
    /\ IF ok
       THEN /\ pc' = "ensure"
            /\ sqlDb' = IF sqlDb = "nil" THEN "open" ELSE sqlDb
            /\ UNCHANGED openErr
       ELSE /\ pc' = "openReturn"
            /\ openErr' = "other"
            /\ UNCHANGED sqlDb
    /\ UNCHANGED <<status, bootstrap, otherNodesBehind, members, schemaRow,
                   cancelled, fence, txPc, lastTx, memVars, authVars,
                   extRest, hb, engine, dst>>

\* The self row as checkVersions writes it.
WithSelfVersions(tbl) ==
    UpdateClusterMemberAPIExtensions(
        UpdateClusterMemberSchemaVersion(tbl, LocalVersion.int,
                                         LocalVersion.ext, LocalName),
        LocalVersion.api, LocalName)

\* A check that compares the internal schema version only.
checkVersionsInternalOnly(tbl) ==
    LET ci == checkSchemaVersion(LocalVersion.int,
                                 ColumnOf(tbl, "schema_internal"))
    IN IF ci.err THEN "behind"
       ELSE IF ci.behind THEN "graceful"
       ELSE "nil"

\* The outcome of checkVersions on the table it has just written.
checkVersions(tbl) ==
    LET ci == checkSchemaVersion(LocalVersion.int,
                                 ColumnOf(tbl, "schema_internal"))
        ce == checkSchemaVersion(LocalVersion.ext,
                                 ColumnOf(tbl, "schema_external"))
    IN IF ci.err THEN "behind"
       ELSE IF ce.err THEN "behind"
       ELSE IF ci.behind \/ ce.behind THEN "graceful"
       ELSE "nil"

\* A waitUpgrade that registers the version check on every start.
checksVersionsAlways(b) == TRUE

\* waitUpgrade: "if !bootstrap" around newSchema.Check(checkVersions) and
\* around the API extensions transaction.
checksVersions(b) == ~b

\* waitUpgrade: newSchema.Ensure, one transaction running the check and
\* then the schema updates.
EnsureTx(ok) ==
    /\ pc = "ensure"
    /\ IF ~ok
       THEN /\ openErr' = "other"
            /\ pc' = "afterRetry"
            /\ UNCHANGED <<members, schemaRow, otherNodesBehind, fence>>
       ELSE IF ~checksVersions(bootstrap)
       THEN /\ schemaRow' = [int |-> LocalVersion.int, ext |-> LocalVersion.ext]
            /\ pc' = "afterRetry"
            /\ UNCHANGED <<members, openErr, otherNodesBehind, fence>>
       ELSE LET tbl == WithSelfVersions(members)
                res == checkVersions(tbl)
            IN /\ fence' = [fence EXCEPT
                      !.schemaRead = TRUE,
                      !.schemaEqual = \A n \in DOMAIN tbl :
                          /\ tbl[n].schema_internal = LocalVersion.int
                          /\ tbl[n].schema_external = LocalVersion.ext,
                      !.ahead = \E n \in DOMAIN tbl : RowAhead(tbl[n]),
                      !.behind = \E n \in DOMAIN tbl : RowBehind(tbl[n]),
                      !.clean = \A n \in DOMAIN tbl : RowNotAhead(tbl[n]),
                      !.migrated = (res = "nil" /\ schemaRow #
                          [int |-> LocalVersion.int, ext |-> LocalVersion.ext])]
               /\ IF res = "behind"
                  THEN /\ openErr' = "behind"
                       /\ pc' = "afterRetry"
                       /\ UNCHANGED <<members, schemaRow, otherNodesBehind>>
                  ELSE IF res = "graceful"
                  THEN /\ members' = tbl
                       /\ otherNodesBehind' = TRUE
                       /\ openErr' = "graceful"
                       /\ pc' = "afterRetry"
                       /\ UNCHANGED schemaRow
                  ELSE /\ members' = tbl
                       /\ schemaRow' = [int |-> LocalVersion.int,
                                        ext |-> LocalVersion.ext]
                       /\ pc' = "apiTx"
                       /\ UNCHANGED <<openErr, otherNodesBehind>>
    /\ UNCHANGED <<status, bootstrap, cancelled, txPc, lastTx,
                   memVars, authVars,
                   extVars>>

\* waitUpgrade: the API extensions transaction that follows Ensure.
APITx(ok) ==
    /\ pc = "apiTx"
    /\ pc' = "afterRetry"
    /\ IF ~ok
       THEN /\ openErr' = "other"
            /\ UNCHANGED <<members, otherNodesBehind, fence>>
       ELSE LET tbl == UpdateClusterMemberAPIExtensions(members,
                           LocalVersion.api, LocalName)
                res == checkAPIExtensions(LocalVersion.api,
                                          ColumnOf(tbl, "api_extensions"))
            IN /\ fence' = [fence EXCEPT
                      !.apiRead = TRUE,
                      !.apiEqual = \A n \in DOMAIN tbl :
                          tbl[n].api_extensions = LocalVersion.api,
                      !.ahead = \E n \in DOMAIN tbl : RowAhead(tbl[n]),
                      !.behind = \E n \in DOMAIN tbl : RowBehind(tbl[n]),
                      !.clean = \A n \in DOMAIN tbl : RowNotAhead(tbl[n])]
               /\ IF res.err
                  THEN /\ openErr' = "behind"
                       /\ UNCHANGED <<members, otherNodesBehind>>
                  ELSE IF res.behind
                  THEN /\ members' = tbl
                       /\ otherNodesBehind' = TRUE
                       /\ openErr' = "graceful"
                  ELSE /\ members' = tbl
                       /\ UNCHANGED <<openErr, otherNodesBehind>>
    /\ UNCHANGED <<status, bootstrap, schemaRow, cancelled,
                   txPc, lastTx, memVars, authVars,
                   extVars>>

\* waitUpgrade after db.retry: wait only when other nodes are behind.
AfterRetry ==
    /\ pc = "afterRetry"
    /\ IF otherNodesBehind /\ ~bootstrap
       THEN /\ status' = "Waiting"
            /\ pc' = "waiting"
       ELSE /\ pc' = "openReturn"
            /\ UNCHANGED status
    /\ UNCHANGED <<bootstrap, openErr, otherNodesBehind, members, schemaRow,
                   cancelled, fence, txPc, lastTx, memVars, authVars,
                   extVars>>

\* waitUpgrade: the time.After(30 * time.Second) case of the select.
WaitTimeout ==
    /\ pc = "waiting"
    /\ pc' = "openReturn"
    /\ UNCHANGED <<status, bootstrap, openErr, otherNodesBehind, members,
                   schemaRow, cancelled, fence, txPc, lastTx, memVars,
                   authVars, extVars>>

\* A send on the channel that waits for its receiver.
selectSendBlocking(p) == IF p = "waiting" THEN "sent" ELSE "blocked"

\* The select of NotifyUpgraded: the send on the unbuffered upgradeCh is
\* taken if waitUpgrade is blocked in its receive, the default case if not.
selectSend(p) == IF p = "waiting" THEN "sent" ELSE "default"

\* NotifyUpgraded: a send that succeeds only if the coordinator is blocked
\* in the select of waitUpgrade, and is dropped otherwise.
NotifyUpgraded ==
    /\ pc' = IF selectSend(pc) = "sent" THEN "openReturn" ELSE pc
    /\ UNCHANGED <<status, bootstrap, openErr, otherNodesBehind, members,
                   schemaRow, cancelled, fence, txPc, lastTx, memVars,
                   authVars, extVars>>

\* Open after waitUpgrade: the reverter on an error, else PrepareStmts and
\* the status Ready.
OpenReturn(ok) ==
    /\ pc = "openReturn"
    /\ pc' = "returned"
    /\ IF openErr # "nil"
       THEN /\ status' = "Offline"
            /\ UNCHANGED <<openErr, sqlDb>>
       ELSE IF ok
       THEN /\ status' = "Ready"
            /\ UNCHANGED <<openErr, sqlDb>>
       ELSE /\ status' = "Offline"
            /\ openErr' = "other"
            /\ sqlDb' = "nil"
    /\ UNCHANGED <<bootstrap, otherNodesBehind, members, schemaRow,
                   cancelled, fence, txPc, lastTx, memVars, authVars,
                   extRest, hb, engine, dst>>

\* A Join that gives up on the first error of Open, graceful or not.
JoinLoopNoRetry ==
    /\ pc = "returned"
    /\ ~bootstrap
    /\ pc' = IF openErr = "nil" THEN "done" ELSE "failed"
    /\ UNCHANGED <<status, bootstrap, openErr, otherNodesBehind, members,
                   schemaRow, cancelled, fence, txPc, lastTx, memVars,
                   authVars, extVars>>

\* DB.Join: the loop around Open.
JoinLoop ==
    /\ pc = "returned"
    /\ ~bootstrap
    /\ pc' = IF openErr = "nil" THEN "done"
             ELSE IF openErr = "graceful" THEN "open"
             ELSE "failed"
    /\ UNCHANGED <<status, bootstrap, openErr, otherNodesBehind, members,
                   schemaRow, cancelled, fence, txPc, lastTx, memVars,
                   authVars, extVars>>

\* DB.Bootstrap after Open: the self row is created in a Transaction.
BootstrapCreate(ok) ==
    /\ pc = "returned"
    /\ bootstrap
    /\ IF openErr = "nil" /\ TransactionAccepts(status) /\ ok
       THEN /\ members' = [n \in {LocalName} |->
                    MemberRow(AddressOf(LocalName), LocalVersion.int,
                              LocalVersion.ext, LocalVersion.api, "PENDING")]
            /\ pc' = "done"
       ELSE /\ pc' = "failed"
            /\ UNCHANGED members
    /\ UNCHANGED <<status, bootstrap, openErr, otherNodesBehind, schemaRow,
                   cancelled, fence, txPc, lastTx, memVars, authVars,
                   extVars>>

\* DB.Stop: cancel the context and set the status Offline.
Stop ==
    /\ cancelled' = TRUE
    /\ status' = "Offline"
    /\ UNCHANGED <<pc, bootstrap, openErr, otherNodesBehind, members,
                   schemaRow, fence, txPc, lastTx, memVars, authVars,
                   extVars>>

\* DqliteDB.Transaction: the status gate.
TransactionCall ==
    /\ txPc = "idle"
    /\ IF ~TransactionAccepts(status)
       THEN /\ lastTx' = [call |-> 1 - lastTx.call, seen |-> status,
                          code |-> 503, ran |-> FALSE]
            /\ UNCHANGED txPc
       ELSE /\ lastTx' = [call |-> 1 - lastTx.call, seen |-> status,
                          code |-> 0, ran |-> FALSE]
            /\ txPc' = "run"
    /\ UNCHANGED <<status, pc, bootstrap, openErr, otherNodesBehind, members,
                   schemaRow, cancelled, fence, memVars, authVars,
                   extVars>>

\* The function a caller passes to Transaction: here the role update of the
\* heartbeat, which writes the local member's row.
RunF(tbl) ==
    IF LocalName \in DOMAIN tbl
    THEN [tbl EXCEPT ![LocalName].role = "voter"]
    ELSE tbl

\* DqliteDB.Transaction: db.retry(query.Transaction(ctx, db.db, f)).
TransactionRun(ok) ==
    /\ txPc = "run"
    /\ txPc' = "idle"
    /\ lastTx' = [lastTx EXCEPT !.code = IF ok THEN 200 ELSE 500,
                                !.ran = TRUE]
    /\ members' = IF ok THEN RunF(members) ELSE members
    /\ UNCHANGED <<status, pc, bootstrap, openErr, otherNodesBehind,
                   schemaRow, cancelled, fence, memVars, authVars,
                   extVars>>

\* The builds a member may run: an older one, this daemon's, a newer one.
Binaries ==
    {[int |-> 0, ext |-> 0, api |-> <<"a">>],
     LocalVersion,
     [int |-> LocalVersion.int + 1, ext |-> LocalVersion.ext + 1,
      api |-> LocalVersion.api \o <<"c">>]}

\* Another member restarts with build b and writes its versions; a member's
\* schema versions never decrease.
PeerPublish(p, b) ==
    /\ p \in Peers \cap DOMAIN members
    /\ b.int >= members[p].schema_internal
    /\ b.ext >= members[p].schema_external
    /\ <<b.int, b.ext, b.api>> # <<members[p].schema_internal,
                                   members[p].schema_external,
                                   members[p].api_extensions>>
    /\ members' = UpdateClusterMemberAPIExtensions(
                      UpdateClusterMemberSchemaVersion(members, b.int,
                                                       b.ext, p),
                      b.api, p)
    /\ UNCHANGED <<status, pc, bootstrap, openErr, otherNodesBehind,
                   schemaRow, cancelled, fence, txPc, lastTx, memVars,
                   authVars, extVars>>

(***************************************************************************)
(* Membership: tokens, admission, removal, role assignment                 *)
(***************************************************************************)
\* GetCoreTokenRecord: the row with the given secret.
GetCoreTokenRecord(tbl, secret) ==
    LET objects == {t \in tbl : t.secret = secret}
    IN IF objects = {} THEN [err |-> "NotFound", name |-> ""]
       ELSE IF Cardinality(objects) = 1
            THEN [err |-> "nil", name |-> (CHOOSE t \in objects : TRUE).name]
            ELSE [err |-> "many", name |-> ""]

\* An insert that reports success and adds no row.
CreateCoreClusterMemberNoInsert(tbl, name, row) ==
    [err |-> "nil", tbl |-> tbl]

\* CreateCoreClusterMember: refuse a name that exists, else insert.
CreateCoreClusterMember(tbl, name, row) ==
    IF name \in DOMAIN tbl
    THEN [err |-> "Conflict", tbl |-> tbl]
    ELSE [err |-> "nil",
          tbl |-> [n \in DOMAIN tbl \cup {name} |->
                      IF n = name THEN row ELSE tbl[n]]]

\* A delete that reports success and leaves the row in place.
DeleteCoreTokenRecordKeep(tbl, name) == [err |-> "nil", tbl |-> tbl]

\* DeleteCoreTokenRecord: delete by name; exactly one row must go.
DeleteCoreTokenRecord(tbl, name) ==
    LET n == Cardinality({t \in tbl : t.name = name})
    IN IF n = 0 THEN [err |-> "NotFound", tbl |-> tbl]
       ELSE IF n > 1 THEN [err |-> "many", tbl |-> tbl]
       ELSE [err |-> "nil", tbl |-> {t \in tbl : t.name # name}]

\* DeleteCoreClusterMember: delete the rows with the given address.
DeleteCoreClusterMember(tbl, address) ==
    [n \in {k \in DOMAIN tbl : tbl[k].address # address} |-> tbl[n]]

\* The members holding the voter role (PENDING is a role of its own).
Voters(tbl) == {n \in DOMAIN tbl : tbl[n].role = "voter"}

\* The transaction of request r is rolled back and answered with err.
Rollback(r, err) ==
    /\ members' = snapshot.members
    /\ tokens' = snapshot.tokens
    /\ txOwner' = 0
    /\ snapshot' = <<>>
    /\ admPc' = [admPc EXCEPT ![r] = "done"]
    /\ admRes' = [admRes EXCEPT ![r] = err]

memRest == <<status, pc, bootstrap, openErr, otherNodesBehind, schemaRow,
             cancelled, fence, txPc, lastTx, authVars, extVars>>

\* POST /cluster: the admission transaction begins.
AdmitBegin(r, name, secret) ==
    /\ admPc[r] = "idle"
    /\ txOwner = 0
    /\ txOwner' = r
    /\ snapshot' = [members |-> members, tokens |-> tokens]
    /\ admReq' = [admReq EXCEPT ![r] = [name |-> name, secret |-> secret]]
    /\ admPc' = [admPc EXCEPT ![r] = "lookup"]
    /\ UNCHANGED <<members, tokens, trust, admRes, lastRemove, memRest>>

\* Admission a: look the token up by secret, the name must match.
AdmitLookup(r) ==
    /\ admPc[r] = "lookup"
    /\ LET rec == GetCoreTokenRecord(tokens, admReq[r].secret)
       IN IF rec.err # "nil" THEN Rollback(r, rec.err)
          ELSE IF rec.name # admReq[r].name THEN Rollback(r, "Forbidden")
          ELSE /\ admPc' = [admPc EXCEPT ![r] = "insert"]
               /\ UNCHANGED <<members, tokens, txOwner, snapshot, admRes>>
    /\ UNCHANGED <<trust, admReq, lastRemove, memRest>>

\* Admission b: insert the member row with the role PENDING.
AdmitInsert(r, ok) ==
    /\ admPc[r] = "insert"
    /\ LET row == MemberRow(AddressOf(admReq[r].name), LocalVersion.int,
                            LocalVersion.ext, LocalVersion.api, "PENDING")
           res == CreateCoreClusterMember(members, admReq[r].name, row)
       IN IF ~ok THEN Rollback(r, "fault")
          ELSE IF res.err # "nil" THEN Rollback(r, res.err)
          ELSE /\ members' = res.tbl
               /\ admPc' = [admPc EXCEPT ![r] = "delete"]
               /\ UNCHANGED <<tokens, txOwner, snapshot, admRes>>
    /\ UNCHANGED <<trust, admReq, lastRemove, memRest>>

\* Admission c: delete the token row by name.
AdmitDelete(r, ok) ==
    /\ admPc[r] = "delete"
    /\ LET res == DeleteCoreTokenRecord(tokens, admReq[r].name)
       IN IF ~ok THEN Rollback(r, "fault")
          ELSE IF res.err # "nil" THEN Rollback(r, res.err)
          ELSE /\ tokens' = res.tbl
               /\ admPc' = [admPc EXCEPT ![r] = "commit"]
               /\ UNCHANGED <<members, txOwner, snapshot, admRes>>
    /\ UNCHANGED <<trust, admReq, lastRemove, memRest>>

\* Admission d: commit and answer with the member list.
AdmitCommit(r, ok) ==
    /\ admPc[r] = "commit"
    /\ IF ~ok THEN Rollback(r, "fault")
       ELSE /\ txOwner' = 0
            /\ snapshot' = <<>>
            /\ admPc' = [admPc EXCEPT ![r] = "done"]
            /\ admRes' = [admRes EXCEPT ![r] = "ok"]
            /\ UNCHANGED <<members, tokens>>
    /\ UNCHANGED <<trust, admReq, lastRemove, memRest>>

\* A removal check that refuses nothing.
RemoveRefusedNever(tbl, target) == FALSE

\* Removal 1: count the voters; refuse when there are fewer than two and
\* the target is a voter.
RemoveRefused(tbl, target) ==
    Cardinality(Voters(tbl)) < 2 /\ tbl[target].role = "voter"

\* DELETE /cluster/{name}: resolve the member, check the quorum, delete the
\* row and the trust entry.
Remove(target) ==
    /\ txOwner = 0
    /\ IF target \notin DOMAIN members
       THEN /\ lastRemove' = [seq |-> 1 - lastRemove.seq, target |-> target,
                              accepted |-> FALSE, err |-> "NotFound"]
            /\ UNCHANGED <<members, trust>>
       ELSE IF RemoveRefused(members, target)
       THEN /\ lastRemove' = [seq |-> 1 - lastRemove.seq, target |-> target,
                              accepted |-> FALSE, err |-> "quorum"]
            /\ UNCHANGED <<members, trust>>
       ELSE /\ lastRemove' = [seq |-> 1 - lastRemove.seq, target |-> target,
                              accepted |-> TRUE, err |-> "nil"]
            /\ members' = DeleteCoreClusterMember(members,
                                                  members[target].address)
            /\ trust' = trust \ {target}
    /\ UNCHANGED <<tokens, txOwner, snapshot, admPc, admReq, admRes, memRest>>

\* The heartbeat's role assignment: a PENDING member gets its dqlite role.
HeartbeatPromote(n, role) ==
    /\ txOwner = 0
    /\ n \in DOMAIN members
    /\ members[n].role = "PENDING"
    /\ members' = [members EXCEPT ![n].role = role]
    /\ UNCHANGED <<tokens, trust, txOwner, snapshot, admPc, admReq, admRes,
                   lastRemove, memRest>>

\* The joiner's trust entry reaches the local trust store.
TrustAdd(n) ==
    /\ txOwner = 0
    /\ n \in DOMAIN members
    /\ n \notin trust
    /\ trust' = trust \cup {n}
    /\ UNCHANGED <<members, tokens, txOwner, snapshot, admPc, admReq, admRes,
                   lastRemove, memRest>>

(***************************************************************************)
(* Daemon: certificates, listeners, POST /control, Authenticate            *)
(***************************************************************************)
ServerCertInfo(sc) == [kind |-> "server", gen |-> sc.gen, name |-> sc.name]
ClusterCertInfo == [kind |-> "cluster", gen |-> 0, name |-> ""]

\* shared.CertInfo.Fingerprint: distinct keypairs, distinct fingerprints.
Fingerprint(cert) == <<cert.kind, cert.gen>>

\* types.ParseAddrPort
ParseAddrPort(text) ==
    IF Len(text) = 3
    THEN [err |-> FALSE, ip |-> text[1], zone |-> text[2], port |-> text[3]]
    ELSE [err |-> TRUE, ip |-> "", zone |-> "", port |-> ""]

\* netip.AddrPort.WithZone and String
WithZone(ap, zone) == [ap EXCEPT !.zone = zone]
AddrPortString(ap) == <<ap.ip, ap.zone, ap.port>>

\* util.CheckMutualTLS: the certificate is one of the trusted ones.
CheckMutualTLS(cert, trustedCerts) == cert \in trustedCerts

\* Authenticate: the pre-init check of the core listener.
PreInit(sc, eps) ==
    /\ "core" \in DOMAIN eps
    /\ Fingerprint(ServerCertInfo(sc)) = Fingerprint(eps["core"].cert)

\* An Authenticate that does not look at the Host header.
AuthenticateAnyHost(remote, host, certs, hostAddr, trustedCerts, sc, eps) ==
    IF remote = "@"
    THEN [trusted |-> TRUE, err |-> "nil", via |-> "socket"]
    ELSE IF PreInit(sc, eps)
    THEN [trusted |-> TRUE, err |-> "nil", via |-> "preinit"]
    ELSE IF \E cert \in certs : CheckMutualTLS(cert, trustedCerts)
    THEN [trusted |-> TRUE, err |-> "nil", via |-> "cert"]
    ELSE [trusted |-> FALSE, err |-> "nil", via |-> "none"]

\* Authenticate(state, r, hostAddress, trustedCerts)
Authenticate(remote, host, certs, hostAddr, trustedCerts, sc, eps) ==
    IF remote = "@"
    THEN [trusted |-> TRUE, err |-> "nil", via |-> "socket"]
    ELSE IF PreInit(sc, eps)
    THEN [trusted |-> TRUE, err |-> "nil", via |-> "preinit"]
    ELSE LET hostAddrPort == ParseAddrPort(hostAddr)
         IN IF hostAddrPort.err
            THEN [trusted |-> FALSE, err |-> "InvalidHostAddress",
                  via |-> "none"]
            ELSE IF host = AddrPortString(WithZone(hostAddrPort, ""))
            THEN IF \E cert \in certs : CheckMutualTLS(cert, trustedCerts)
                 THEN [trusted |-> TRUE, err |-> "nil", via |-> "cert"]
                 ELSE [trusted |-> FALSE, err |-> "nil", via |-> "none"]
            ELSE [trusted |-> FALSE, err |-> "ErrInvalidHost",
                  via |-> "none"]

\* Endpoints.UpdateTLSByName -> Network.UpdateTLS
UpdateTLSByName(eps, name, cert) ==
    IF name \in DOMAIN eps THEN [eps EXCEPT ![name].cert = cert] ELSE eps

\* Endpoints.Down(false, EndpointNetwork): the network listeners are closed.
Down(eps) == [n \in {} |-> 0]

\* Endpoints.Add: names already present are ignored.
Add(eps, name, cert) ==
    IF name \in DOMAIN eps THEN eps
    ELSE [n \in DOMAIN eps \cup {name} |->
             IF n = name THEN [cert |-> cert] ELSE eps[n]]

authRest == <<pc, bootstrap, openErr, otherNodesBehind, members, schemaRow,
              cancelled, fence, txPc, lastTx, tokens, txOwner, snapshot, admPc,
              admReq, admRes, lastRemove, extVars>>

\* A status check that lets every request through.
controlAllowedAlways(st) == TRUE

\* controlPost: the request goes on only while the database is NotReady.
controlAllowed(st) == st = "NotReady"

\* controlPost: an error of the PreInit hook is returned at once, before
\* the reverter exists; else the server keypair is replaced when the name
\* is not the certificate's.
afterPreInit(hookOk, matches) ==
    IF ~hookOk THEN "done" ELSE IF matches THEN "token" ELSE "reload"

\* controlPost up to the server certificate: the status check, SetConfig,
\* the PreInit hook and certNameMatches.
CtlStart(c, kind, name, address) ==
    /\ daemon = "running"
    /\ ctlPc[c] = "idle"
    /\ IF ~controlAllowed(status)
       THEN /\ ctlPc' = [ctlPc EXCEPT ![c] = "done"]
            /\ UNCHANGED <<ctlReq, hostAddress, hookLog>>
       ELSE LET matches == (serverCert.name = name)
            IN \E hookOk \in BOOLEAN :
               /\ ctlReq' = [ctlReq EXCEPT ![c] =
                     [kind |-> kind, name |-> name, matches |-> matches,
                      joined |-> FALSE, preInit |-> hookOk,
                      before |-> hostAddress]]
               /\ hostAddress' = address
               /\ hookLog' = hookLog \cup {"PreInit"}
               /\ ctlPc' = [ctlPc EXCEPT ![c] = afterPreInit(hookOk, matches)]
    /\ UNCHANGED <<status, serverCert, diskServerCert, endpoints, swapped,
                   daemon, lastAuth, trust,
                   authRest>>

\* controlPost: a new server keypair, then Daemon.ReloadCert(server).
CtlReloadServer(c) ==
    /\ daemon = "running"
    /\ ctlPc[c] = "reload"
    /\ diskServerCert.gen < MaxGen
    /\ LET cert == [gen |-> diskServerCert.gen + 1, name |-> ctlReq[c].name]
       IN /\ diskServerCert' = cert
          /\ IF status # "NotReady"
             THEN /\ ctlPc' = [ctlPc EXCEPT ![c] = "fail"]
                  /\ UNCHANGED <<serverCert, endpoints>>
             ELSE /\ serverCert' = cert
                  /\ endpoints' = UpdateTLSByName(endpoints, "core",
                                                  ServerCertInfo(cert))
                  /\ ctlPc' = [ctlPc EXCEPT ![c] = "token"]
    /\ UNCHANGED <<status, ctlReq, hostAddress, swapped, daemon, lastAuth,
                   trust, hookLog,
                   authRest>>

\* controlPost: joinWithToken and setupLocalMember, when a token is given.
CtlToken(c, ok) ==
    /\ daemon = "running"
    /\ ctlPc[c] = "token"
    /\ IF ctlReq[c].kind = "bootstrap"
       THEN /\ ctlPc' = [ctlPc EXCEPT ![c] = "swap"]
            /\ UNCHANGED <<ctlReq, trust>>
       ELSE IF ok
       THEN /\ ctlPc' = [ctlPc EXCEPT ![c] = "swap"]
            /\ ctlReq' = [ctlReq EXCEPT ![c].joined = TRUE]
            /\ trust' = trust \cup Peers \cup {ctlReq[c].name}
       ELSE /\ ctlPc' = [ctlPc EXCEPT ![c] = "fail"]
            /\ UNCHANGED <<ctlReq, trust>>
    /\ UNCHANGED <<status, serverCert, diskServerCert, endpoints, hostAddress,
                   swapped, daemon, lastAuth, hookLog,
                   authRest>>

\* StartAPI: the address check and Daemon.ReloadCert(cluster).
ApiReloadCluster(c) ==
    /\ daemon = "running"
    /\ ctlPc[c] = "swap"
    /\ IF ParseAddrPort(hostAddress).err
       THEN /\ ctlPc' = [ctlPc EXCEPT ![c] = "fail"]
            /\ UNCHANGED <<endpoints, swapped, trust>>
       ELSE /\ trust' = IF ctlReq[c].kind = "bootstrap"
                        THEN trust \cup {ctlReq[c].name}
                        ELSE trust
            /\ endpoints' = UpdateTLSByName(endpoints, "core", ClusterCertInfo)
            /\ swapped' = (swapped \/ "core" \in DOMAIN endpoints)
            /\ ctlPc' = [ctlPc EXCEPT ![c] = "restart"]
    /\ UNCHANGED <<status, serverCert, diskServerCert, ctlReq, hostAddress,
                   daemon, lastAuth, hookLog,
                   authRest>>

\* StartAPI: Endpoints.Down(false, EndpointNetwork), then addCoreServers
\* and addExtensionServers with the cluster certificate.
ApiRestartListeners(c, ok) ==
    /\ daemon = "running"
    /\ ctlPc[c] = "restart"
    /\ IF ok
       THEN /\ endpoints' = Add(Down(endpoints), "core", ClusterCertInfo)
            /\ swapped' = TRUE
            /\ ctlPc' = [ctlPc EXCEPT ![c] = "open"]
       ELSE /\ endpoints' = Down(endpoints)
            /\ ctlPc' = [ctlPc EXCEPT ![c] = "fail"]
            /\ UNCHANGED swapped
    /\ UNCHANGED <<status, serverCert, diskServerCert, ctlReq, hostAddress,
                   daemon, lastAuth, trust, hookLog,
                   authRest>>

\* StartAPI: db.Bootstrap or db.Join enters Open.
ApiOpen(c) ==
    /\ daemon = "running"
    /\ ctlPc[c] = "open"
    /\ status' = "Starting"
    /\ ctlPc' = [ctlPc EXCEPT ![c] = "opening"]
    /\ UNCHANGED <<serverCert, diskServerCert, endpoints, ctlReq, hostAddress,
                   swapped, daemon, lastAuth, trust, hookLog,
                   authRest>>

\* StartAPI: db.Bootstrap or db.Join returns, and StartAPI with it.
ApiOpened(c, ok) ==
    /\ daemon = "running"
    /\ ctlPc[c] = "opening"
    /\ status' = IF ok THEN "Ready" ELSE "Offline"
    /\ ctlPc' = [ctlPc EXCEPT ![c] = IF ok THEN "done" ELSE "fail"]
    /\ UNCHANGED <<serverCert, diskServerCert, endpoints, ctlReq, hostAddress,
                   swapped, daemon, lastAuth, trust, hookLog,
                   authRest>>

\* controlPost: the reverter. A join that was never authorised and that
\* replaced the server keypair returns; every other failure resets the
\* member and re-executes the daemon.
CtlFail(c) ==
    /\ daemon = "running"
    /\ ctlPc[c] = "fail"
    /\ ctlPc' = [ctlPc EXCEPT ![c] = "done"]
    /\ IF /\ ~ctlReq[c].joined
          /\ ctlReq[c].kind = "join"
          /\ ~ctlReq[c].matches
       THEN UNCHANGED <<daemon, hookLog>>
       ELSE /\ daemon' = "exited"
            /\ hookLog' = hookLog \cup {"PreRemove"}
    /\ UNCHANGED <<status, serverCert, diskServerCert, endpoints, ctlReq,
                   hostAddress, swapped, lastAuth, trust,
                   authRest>>

\* The core listener serves, and with the server certificate.
CoreServesServerCert ==
    /\ "core" \in DOMAIN endpoints
    /\ endpoints["core"].cert.kind = "server"

\* The core listener serves with the cluster certificate.
CoreServesClusterCert ==
    /\ "core" \in DOMAIN endpoints
    /\ endpoints["core"].cert.kind = "cluster"

NoAuth ==
    [called |-> FALSE, remote |-> "", listener |-> "", host |-> <<>>,
     certs |-> {}, hostAddress |-> <<>>, coreServer |-> FALSE,
     coreCluster |-> FALSE, swapped |-> FALSE, status |-> "",
     trusted |-> FALSE, err |-> "", via |-> ""]

\* One request through Authenticate: over the control socket (remote "@")
\* or over TLS on a network listener.
AuthRequest(remote, listener, host, certs) ==
    /\ daemon = "running"
    /\ remote = "@" <=> listener = "unix"
    /\ listener = "core" => "core" \in DOMAIN endpoints
    /\ LET res == Authenticate(remote, host, certs, hostAddress, TrustedCerts,
                               serverCert, endpoints)
       IN lastAuth' =
             [called |-> TRUE, remote |-> remote, listener |-> listener,
              host |-> host, certs |-> certs, hostAddress |-> hostAddress,
              coreServer |-> CoreServesServerCert,
              coreCluster |-> CoreServesClusterCert,
              swapped |-> swapped, status |-> status,
              trusted |-> res.trusted, err |-> res.err, via |-> res.via]
    /\ UNCHANGED <<status, serverCert, diskServerCert, endpoints, ctlPc,
                   ctlReq, hostAddress, swapped, daemon, trust, hookLog,
                   authRest>>

(***************************************************************************)
(* Join: joinWithToken, setupLocalMember, StartAPI, the reverter           *)
(***************************************************************************)
JoinerRow ==
    MemberRow(AddressOf(LocalName), LocalVersion.int, LocalVersion.ext,
              LocalVersion.api, "PENDING")

JoinerSecret == "s1"

\* POST /cluster on a member: the admission transaction.
clusterPost(tblM, tblT, name, secret, row) ==
    LET rec == GetCoreTokenRecord(tblT, secret)
        ins == CreateCoreClusterMember(tblM, name, row)
        del == DeleteCoreTokenRecord(tblT, name)
        refuse(err) == [err |-> err, members |-> tblM, tokens |-> tblT]
    IN IF rec.err # "nil" THEN refuse(rec.err)
       ELSE IF rec.name # name THEN refuse("Forbidden")
       ELSE IF ins.err # "nil" THEN refuse(ins.err)
       ELSE IF del.err # "nil" THEN refuse(del.err)
       ELSE [err |-> "nil", members |-> ins.tbl, tokens |-> del.tbl]

\* A loop that gives up at the first candidate that fails.
AfterAttemptNoRetry(res) ==
    IF res = "admitted" THEN "break" ELSE "return"

\* A loop that goes on to the next candidate after a wrong certificate.
AfterAttemptSkipsMismatch(res) ==
    IF res = "admitted" THEN "break" ELSE "continue"

\* joinWithToken: what the loop does after a candidate's result.
AfterAttempt(res) ==
    IF res = "admitted" THEN "break"
    ELSE IF res = "fingerprint" THEN "return"
    ELSE "continue"

\* A confirmation that needs no member.
clusterConfirmationAlways(acks) == TRUE

\* StartAPI: clusterConfirmation after the trust entries were sent.
clusterConfirmation(acks) == acks # {}

joinRest == <<pc, bootstrap, openErr, otherNodesBehind, schemaRow, cancelled,
              fence, txPc, lastTx, txOwner, snapshot, admPc, admReq, admRes,
              lastRemove, serverCert, diskServerCert, endpoints, ctlPc,
              ctlReq, hostAddress, swapped, lastAuth, hookLog, runVars,
              tlsVars, notVars, opVars>>

\* controlPost with a join token up to joinWithToken's loop: certNameMatches
\* and DecodeToken.
joinWithTokenBegin(ok, matches) ==
    /\ jPc = "idle"
    /\ jMatches' = matches
    /\ IF ok
       THEN /\ jPc' = "try"
            /\ jIdx' = 1
            /\ UNCHANGED jErr
       ELSE /\ jPc' = "revert"
            /\ jErr' = "decode"
            /\ UNCHANGED jIdx
    /\ UNCHANGED <<jLog, jInfo, peerMode, peerTrust, status, members, tokens,
                   trust, daemon, jSteps,
                   jNotify, joinRest>>

\* joinWithToken: one turn of the loop over token.JoinAddresses, with the
\* admission the candidate runs when the request reaches it.
joinWithTokenTry ==
    /\ jPc = "try"
    /\ jIdx <= MaxCand
    /\ LET mode == peerMode[jIdx]
           adm == clusterPost(members, tokens, LocalName, JoinerSecret,
                              JoinerRow)
           reached == mode \in {"ok", "lossy"}
           res == CASE mode = "down" -> "transport"
                    [] mode = "badcert" -> "fingerprint"
                    [] mode = "error" -> "error"
                    [] mode = "lossy" -> "transport"
                    [] OTHER -> IF adm.err = "nil" THEN "admitted" ELSE adm.err
           after == AfterAttempt(res)
       IN /\ members' = IF reached THEN adm.members ELSE members
          /\ tokens' = IF reached THEN adm.tokens ELSE tokens
          /\ jLog' = Append(jLog,
                [cand |-> jIdx, sent |-> mode \in {"error", "ok", "lossy"},
                 committed |-> (reached /\ adm.err = "nil"), res |-> res])
          /\ jInfo' = IF after = "break" THEN jIdx ELSE jInfo
          /\ jIdx' = IF after = "continue" THEN jIdx + 1 ELSE jIdx
          /\ jPc' = CASE after = "break" -> "setup"
                      [] after = "return" -> "revert"
                      [] OTHER -> "try"
          /\ jErr' = IF after = "return" THEN "fingerprint" ELSE jErr
    /\ UNCHANGED <<jMatches, peerMode, peerTrust, status, trust, daemon,
                   jSteps,
                   jNotify, joinRest>>

\* joinWithToken: the loop is over and joinInfo is nil.
joinWithTokenReturn ==
    /\ jPc = "try"
    /\ jIdx > MaxCand
    /\ jPc' = "revert"
    /\ jErr' = "allFailed"
    /\ UNCHANGED <<jIdx, jLog, jInfo, jMatches, peerMode, peerTrust, status,
                   members, tokens, trust, daemon, jSteps,
                   jNotify, joinRest>>

\* setupLocalMember: the certificates are written and the trust store is
\* seeded with the returned members and the joiner.
setupLocalMember(ok) ==
    /\ jPc = "setup"
    /\ IF ok
       THEN /\ trust' = DOMAIN members \cup {LocalName}
            /\ jPc' = "api"
            /\ UNCHANGED jErr
       ELSE /\ jPc' = "revert"
            /\ jErr' = "setup"
            /\ UNCHANGED trust
    /\ UNCHANGED <<jIdx, jLog, jInfo, jMatches, peerMode, peerTrust, status,
                   members, tokens, daemon, jSteps,
                   jNotify, joinRest>>

\* What StartAPI does after db.Join, the PreJoin hook left out.
afterDatabaseJoinNoHook(ok) == IF ok THEN "propagate" ELSE "revert"

\* StartAPI: the PreJoin hook follows a db.Join that returned no error.
afterDatabaseJoin(ok) == IF ok THEN "prejoin" ELSE "revert"

\* StartAPI of a joiner up to the database: the listeners and db.Join.
JoinStartAPI(ok) ==
    /\ jPc = "api"
    /\ status' = IF ok THEN "Ready" ELSE "Offline"
    /\ jPc' = afterDatabaseJoin(ok)
    /\ jErr' = IF ok THEN jErr ELSE "join"
    /\ jSteps' = Append(jSteps, [step |-> "dbJoin", ok |-> ok])
    /\ UNCHANGED <<jIdx, jLog, jInfo, jMatches, peerMode, peerTrust, members,
                   tokens, trust, daemon, jNotify, joinRest>>

\* StartAPI: the PreJoin hook; its error is returned.
JoinPreJoin(ok) ==
    /\ jPc = "prejoin"
    /\ jPc' = IF ok THEN "propagate" ELSE "revert"
    /\ jErr' = IF ok THEN jErr ELSE "preJoin"
    /\ jSteps' = Append(jSteps, [step |-> "PreJoin", ok |-> ok])
    /\ UNCHANGED <<jIdx, jLog, jInfo, jMatches, peerMode, peerTrust, status,
                   members, tokens, trust, daemon, jNotify, joinRest>>

\* StartAPI: AddTrustStoreEntry is sent to every other member of the trust
\* store; acks are the members that accepted it.
JoinPropagateTrust(acks) ==
    /\ jPc = "propagate"
    /\ acks \subseteq trust \ {LocalName}
    /\ peerTrust' = peerTrust \cup acks
    /\ IF clusterConfirmation(acks)
       THEN /\ jPc' = "notify"
            /\ UNCHANGED jErr
       ELSE /\ jPc' = "revert"
            /\ jErr' = "noConfirmation"
    /\ UNCHANGED <<jIdx, jLog, jInfo, jMatches, peerMode, status, members,
                   tokens, trust, daemon, jSteps, jNotify,
                   joinRest>>

\* StartAPI: attemptCount > 0 && successCount == 0 fails. A member counts
\* when its OnNewMember hook returned no error or 503.
newMemberNotified(peers, out) ==
    peers = {} \/ \E p \in peers : out[p] \in {"ok", "unavailable"}

\* StartAPI: the upgrade notification and the OnNewMember hook on every
\* other member; out is what each member's hook answered.
JoinNotify(out) ==
    /\ jPc = "notify"
    /\ jNotify' = out
    /\ IF newMemberNotified(trust \ {LocalName}, out)
       THEN /\ jPc' = "postjoin"
            /\ UNCHANGED jErr
       ELSE /\ jPc' = "revert"
            /\ jErr' = "notify"
    /\ UNCHANGED <<jIdx, jLog, jInfo, jMatches, peerMode, peerTrust, status,
                   members, tokens, trust, daemon, jSteps, joinRest>>

\* A StartAPI that logs the error of PostJoin.
afterPostJoinLogged(ok) == "done"

\* StartAPI: return d.hooks.PostJoin(...), and controlPost on its error.
afterPostJoin(ok) == IF ok THEN "done" ELSE "revert"

\* StartAPI: the PostJoin hook.
JoinPostJoin(ok) ==
    /\ jPc = "postjoin"
    /\ jPc' = afterPostJoin(ok)
    /\ jErr' = IF afterPostJoin(ok) = "done" THEN "nil" ELSE "postJoin"
    /\ jSteps' = Append(jSteps, [step |-> "PostJoin", ok |-> ok])
    /\ UNCHANGED <<jIdx, jLog, jInfo, jMatches, peerMode, peerTrust, status,
                   members, tokens, trust, daemon, jNotify, joinRest>>

\* A reverter that always returns before the PreRemove hook.
reverterReturnsAlways(info, matches) == TRUE

\* controlPost, reverter: joinInfo == nil && req.JoinToken != "" &&
\* !certNameMatches returns at once.
reverterReturns(info, matches) == info = 0 /\ ~matches

\* controlPost: the reverter of a join. Without joinInfo it returns, or
\* runs PreRemove and resets the local member when the certificate name
\* matched; with joinInfo it runs PreRemove and asks the admitting member to
\* delete the joiner, which also re-executes the joiner, and gives up when
\* that member cannot be reached or the delete fails. An error of the hook
\* is logged.
JoinRevert(hookOk, outcome) ==
    /\ jPc = "revert"
    /\ jPc' = "done"
    /\ IF reverterReturns(jInfo, jMatches)
       THEN UNCHANGED <<members, trust, peerTrust, daemon, jSteps>>
       ELSE IF jInfo = 0
       THEN /\ daemon' = "exited"
            /\ jSteps' = jSteps \o <<[step |-> "PreRemove", ok |-> hookOk],
                                     [step |-> "reset", ok |-> TRUE]>>
            /\ UNCHANGED <<members, trust, peerTrust>>
       ELSE IF outcome = "deleted"
       THEN /\ members' = DeleteCoreClusterMember(members,
                                                  AddressOf(LocalName))
            /\ peerTrust' = {}
            /\ trust' = {}
            /\ daemon' = "exited"
            /\ jSteps' = jSteps \o <<[step |-> "PreRemove", ok |-> hookOk],
                                     [step |-> "DELETE", ok |-> TRUE],
                                     [step |-> "reset", ok |-> TRUE]>>
       ELSE /\ jSteps' = jSteps \o
                  (<<[step |-> "PreRemove", ok |-> hookOk]>> \o
                   IF outcome = "deleteFailed"
                   THEN <<[step |-> "DELETE", ok |-> FALSE]>>
                   ELSE <<>>)
            /\ UNCHANGED <<members, trust, peerTrust, daemon>>
    /\ UNCHANGED <<jIdx, jLog, jInfo, jErr, jMatches, peerMode, status, tokens,
                   jNotify, joinRest>>

(***************************************************************************)
(* Daemon.Run, the stop sequence, GET /ready                               *)
(***************************************************************************)
NoReady == [called |-> FALSE, code |-> 0, cancelledAtCheck |-> FALSE,
            readyAtSelect |-> FALSE, cancelledAtSelect |-> FALSE]

runRest == <<pc, bootstrap, openErr, otherNodesBehind, members, schemaRow,
             fence, txPc, lastTx, memVars, serverCert, diskServerCert,
             endpoints, ctlPc, ctlReq, hostAddress, swapped, daemon, lastAuth,
             joinVars, tlsVars, notVars, opVars>>

\* Daemon.Run up to the OnStart hook: init fails before the database
\* exists, before the listeners exist, after both, or succeeds.
RunInit(stage) ==
    /\ runPc = "init"
    /\ dbHandle' = IF stage = "store" THEN "nil" ELSE "open"
    /\ listeners' = IF stage \in {"store", "db"} THEN "nil" ELSE "up"
    /\ runPc' = IF stage = "ok" THEN "onStart" ELSE "reverting"
    /\ UNCHANGED <<readyClosed, shutdownCancelled, oncePc, onceVal, stopPc,
                   stopRes, bodyPc, dqliteErr, stopLog, rdPc, lastReady,
                   status, cancelled, hookLog, runRest>>

\* A Run that logs the error of OnStart.
afterOnStartLogged(ok) == "serving"

\* Daemon.Run: an error of the OnStart hook is returned, which fires the
\* reverter.
afterOnStart(ok) == IF ok THEN "serving" ELSE "reverting"

\* Daemon.Run: the OnStart hook, and close(d.ReadyChan) when it returned
\* no error.
RunOnStart(ok) ==
    /\ runPc = "onStart"
    /\ hookLog' = hookLog \cup
                      (IF ok THEN {"OnStart"} ELSE {"OnStart", "OnStartError"})
    /\ readyClosed' = (afterOnStart(ok) = "serving")
    /\ runPc' = afterOnStart(ok)
    /\ UNCHANGED <<dbHandle, listeners, shutdownCancelled, oncePc, onceVal,
                   stopPc, stopRes, bodyPc, dqliteErr, stopLog, rdPc,
                   lastReady, status, cancelled, runRest>>

\* A once that runs its function for every caller.
onceDoAlways(state) == TRUE

\* sync.OnceValue: the caller that finds it new runs the function.
onceDo(state) == state = "new"

\* d.stop(): a call, from Run's reverter, from Run's loop or from
\* State.Stop. The first caller enters the stop sequence, the others wait.
StopCall(s) ==
    /\ runPc # "init"
    /\ stopPc[s] = "idle"
    /\ IF onceDo(oncePc)
       THEN /\ oncePc' = "running"
            /\ bodyPc' = "cancel"
            /\ stopPc' = [stopPc EXCEPT ![s] = "body"]
            /\ stopLog' = Append(stopLog, "begin")
       ELSE /\ stopPc' = [stopPc EXCEPT ![s] = "waiting"]
            /\ UNCHANGED <<oncePc, bodyPc, stopLog>>
    /\ UNCHANGED <<runPc, dbHandle, listeners, readyClosed, shutdownCancelled,
                   onceVal, stopRes, dqliteErr, rdPc, lastReady, status,
                   cancelled, hookLog, runRest>>

\* Daemon.Run returns an error: its reverter calls d.stop().
RunRevert(s) ==
    /\ runPc = "reverting"
    /\ stopPc[s] = "idle"
    /\ runPc' = "returned"
    /\ IF onceDo(oncePc)
       THEN /\ oncePc' = "running"
            /\ bodyPc' = "cancel"
            /\ stopPc' = [stopPc EXCEPT ![s] = "body"]
            /\ stopLog' = Append(stopLog, "begin")
       ELSE /\ stopPc' = [stopPc EXCEPT ![s] = "waiting"]
            /\ UNCHANGED <<oncePc, bodyPc, stopLog>>
    /\ UNCHANGED <<dbHandle, listeners, readyClosed, shutdownCancelled,
                   onceVal, stopRes, dqliteErr, rdPc, lastReady, status,
                   cancelled, hookLog, runRest>>

\* The stop sequence: d.shutdownCancel().
StopCancel ==
    /\ bodyPc = "cancel"
    /\ shutdownCancelled' = TRUE
    /\ stopLog' = Append(stopLog, "cancel")
    /\ bodyPc' = "db"
    /\ UNCHANGED <<runPc, dbHandle, listeners, readyClosed, oncePc, onceVal,
                   stopPc, stopRes, dqliteErr, rdPc, lastReady, status,
                   cancelled, hookLog, runRest>>

\* The function of the once returns: the value is stored and the callers
\* inside the function get it.
FinishOnce(result) ==
    /\ bodyPc' = "end"
    /\ oncePc' = "done"
    /\ onceVal' = result
    /\ stopPc' = [s \in Stoppers |->
                     IF stopPc[s] = "body" THEN "returned" ELSE stopPc[s]]
    /\ stopRes' = [s \in Stoppers |->
                      IF stopPc[s] = "body" THEN result ELSE stopRes[s]]

\* A stop sequence that returns the database's error at once.
StopDatabaseAbort(ok) ==
    /\ bodyPc = "db"
    /\ dbHandle # "nil"
    /\ cancelled' = TRUE
    /\ status' = "Offline"
    /\ dbHandle' = IF ok THEN "closed" ELSE "closeFailed"
    /\ dqliteErr' = ~ok
    /\ stopLog' = Append(stopLog, "db")
    /\ IF ok
       THEN /\ bodyPc' = "down"
            /\ UNCHANGED <<oncePc, onceVal, stopPc, stopRes>>
       ELSE FinishOnce("dbErr")
    /\ UNCHANGED <<runPc, listeners, readyClosed, shutdownCancelled, rdPc,
                   lastReady, hookLog, runRest>>

\* The stop sequence: d.db.Stop() when there is a database; its error is
\* logged and kept.
StopDatabase(ok) ==
    /\ bodyPc = "db"
    /\ IF dbHandle = "nil"
       THEN UNCHANGED <<cancelled, status, dbHandle, dqliteErr, stopLog>>
       ELSE /\ cancelled' = TRUE
            /\ status' = "Offline"
            /\ dbHandle' = IF ok THEN "closed" ELSE "closeFailed"
            /\ dqliteErr' = ~ok
            /\ stopLog' = Append(stopLog, "db")
    /\ bodyPc' = "down"
    /\ UNCHANGED <<runPc, listeners, readyClosed, shutdownCancelled, oncePc,
                   onceVal, stopPc, stopRes, rdPc, lastReady, hookLog,
                   runRest>>

\* The stop sequence: d.endpoints.Down(true) when there are endpoints, and
\* the return.
StopListeners(ok) ==
    /\ bodyPc = "down"
    /\ IF listeners = "nil"
       THEN /\ FinishOnce(IF dqliteErr THEN "dbErr" ELSE "nil")
            /\ UNCHANGED <<listeners, stopLog>>
       ELSE /\ listeners' = IF ok THEN "closed" ELSE "closeFailed"
            /\ stopLog' = Append(stopLog, "down")
            /\ FinishOnce(IF ~ok THEN "downErr"
                          ELSE IF dqliteErr THEN "dbErr" ELSE "nil")
    /\ UNCHANGED <<runPc, dbHandle, readyClosed, shutdownCancelled, dqliteErr,
                   rdPc, lastReady, status, cancelled, hookLog, runRest>>

\* d.stop(): a caller that waited gets the stored value.
StopReturn(s) ==
    /\ stopPc[s] = "waiting"
    /\ oncePc = "done"
    /\ stopPc' = [stopPc EXCEPT ![s] = "returned"]
    /\ stopRes' = [stopRes EXCEPT ![s] = onceVal]
    /\ UNCHANGED <<runPc, dbHandle, listeners, readyClosed, shutdownCancelled,
                   oncePc, onceVal, bodyPc, dqliteErr, stopLog, rdPc,
                   lastReady, status, cancelled, hookLog, runRest>>

\* A check of the shutdown context that never sees it cancelled.
contextErrNever(isCancelled) == FALSE

\* getWaitReady: intState.Context.Err() != nil
contextErr(isCancelled) == isCancelled

\* getWaitReady: the check of the shutdown context.
ReadyCheckContext ==
    /\ listeners = "up"
    /\ rdPc = "idle"
    /\ IF contextErr(shutdownCancelled)
       THEN /\ lastReady' = [called |-> TRUE, code |-> 503,
                             cancelledAtCheck |-> shutdownCancelled,
                             readyAtSelect |-> FALSE,
                             cancelledAtSelect |-> shutdownCancelled]
            /\ UNCHANGED rdPc
       ELSE /\ rdPc' = "select"
            /\ lastReady' = [NoReady EXCEPT
                                !.cancelledAtCheck = shutdownCancelled]
    /\ UNCHANGED <<runPc, dbHandle, listeners, readyClosed, shutdownCancelled,
                   oncePc, onceVal, stopPc, stopRes, bodyPc, dqliteErr,
                   stopLog, status, cancelled, hookLog, runRest>>

\* getWaitReady: the select on ReadyCh and the response.
ReadySelect ==
    /\ rdPc = "select"
    /\ rdPc' = "idle"
    /\ lastReady' = [called |-> TRUE,
                     code |-> IF readyClosed THEN 200 ELSE 503,
                     cancelledAtCheck |-> lastReady.cancelledAtCheck,
                     readyAtSelect |-> readyClosed,
                     cancelledAtSelect |-> shutdownCancelled]
    /\ UNCHANGED <<runPc, dbHandle, listeners, readyClosed, shutdownCancelled,
                   oncePc, onceVal, stopPc, stopRes, bodyPc, dqliteErr,
                   stopLog, status, cancelled, hookLog, runRest>>

(***************************************************************************)
(* PATCH /database                                                         *)
(***************************************************************************)
NoNotify == [returned |-> FALSE, waiting |-> FALSE, stopped |-> FALSE,
             sent |-> FALSE]

notRest == <<status, bootstrap, openErr, otherNodesBehind, members,
             schemaRow, cancelled, fence, txPc, lastTx, memVars, authVars,
             joinVars, runVars, tlsVars, opVars>>

\* databasePatch up to the call of NotifyUpgraded: a request whose
\* X-Dqlite-Version is not a number is answered 400.
databasePatch(n, valid) ==
    /\ notPc[n] = "idle"
    /\ notPc' = [notPc EXCEPT ![n] = IF valid THEN "notify" ELSE "idle"]
    /\ notRes' = [notRes EXCEPT ![n] = NoNotify]
    /\ UNCHANGED <<pc, notRest>>

\* databasePatch: NotifyUpgraded runs its select and the handler answers.
databasePatchNotify(n) ==
    /\ notPc[n] \in {"notify", "blocked"}
    /\ LET res == selectSend(pc)
       IN  /\ pc' = IF res = "sent" THEN "openReturn" ELSE pc
           /\ notPc' = [notPc EXCEPT ![n] =
                           IF res = "blocked" THEN "blocked" ELSE "idle"]
           /\ notRes' = [notRes EXCEPT ![n] =
                            IF res = "blocked"
                            THEN notRes[n]
                            ELSE [returned |-> TRUE,
                                  waiting |-> pc = "waiting",
                                  stopped |-> cancelled,
                                  sent |-> res = "sent"]]
    /\ UNCHANGED notRest

(***************************************************************************)
(* Network endpoint and mutableTLSListener                                 *)
(***************************************************************************)
NoConn == [valid |-> FALSE, cfg |-> 0, atReturn |-> 0, configAtCall |-> 0,
           updateAtCall |-> 0]

tlsRest == <<dbVars, memVars, authVars, joinVars, runVars, notVars,
             opVars>>

\* Network.Listen: a new mutableTLSListener with n.cert.
NetworkListen(ok) ==
    /\ nListener \in {"nil", "closed"}
    /\ updPc = "idle"
    /\ IF ok
       THEN /\ nListener' = "bound"
            /\ lConfig' = nCert
       ELSE UNCHANGED <<nListener, lConfig>>
    /\ UNCHANGED <<nCert, lRead, lWrite, updPc, updCert, updCount,
                   lastConfigDone, lastUpdateDone, accPc, accCfg, accSeen,
                   lastConn, tlsRest>>

\* Network.Close: the listener is closed; the Accept calls blocked in the
\* inner listener return its error.
NetworkClose ==
    /\ nListener = "bound"
    /\ updPc = "idle"
    /\ nListener' = "closed"
    /\ accPc' = [a \in Acceptors |->
                    IF accPc[a] = "inner" THEN "idle" ELSE accPc[a]]
    /\ UNCHANGED <<nCert, lConfig, lRead, lWrite, updPc, updCert, updCount,
                   lastConfigDone, lastUpdateDone, accCfg, accSeen, lastConn,
                   tlsRest>>

\* An UpdateTLS that stores the certificate whatever the listener is.
hasMutableListenerAlways(listener) == TRUE

\* Network.UpdateTLS: n.listener.(*mutableTLSListener) succeeds.
hasMutableListener(listener) == listener # "nil"

\* Network.UpdateTLS(cert) up to l.Config: with a mutableTLSListener n.cert
\* is replaced; without one the call returns and nothing is stored.
NetworkUpdateTLS ==
    /\ updPc = "idle"
    /\ updCount < MaxUpd
    /\ updCount' = updCount + 1
    /\ updCert' = updCount + 1
    /\ IF hasMutableListener(nListener)
       THEN /\ nCert' = updCount + 1
            /\ updPc' = "lock"
            /\ UNCHANGED lastUpdateDone
       ELSE /\ lastUpdateDone' = updCount + 1
            /\ UNCHANGED <<nCert, updPc>>
    /\ UNCHANGED <<nListener, lConfig, lRead, lWrite, lastConfigDone, accPc,
                   accCfg, accSeen, lastConn, tlsRest>>

\* A lock that is always granted.
writeLockFreeAlways(readers, writer) == TRUE

\* sync.RWMutex.Lock: no reader and no writer holds it.
writeLockFree(readers, writer) == readers = {} /\ ~writer

\* mutableTLSListener.Config: the new configuration is built and the lock
\* taken.
ConfigLock ==
    /\ updPc = "lock"
    /\ writeLockFree(lRead, lWrite)
    /\ lWrite' = TRUE
    /\ updPc' = "assign"
    /\ UNCHANGED <<nCert, nListener, lConfig, lRead, updCert, updCount,
                   lastConfigDone, lastUpdateDone, accPc, accCfg, accSeen,
                   lastConn, tlsRest>>

\* mutableTLSListener.Config: l.config = config, the unlock, and the return
\* of Config and of UpdateTLS.
ConfigAssign ==
    /\ updPc = "assign"
    /\ lConfig' = updCert
    /\ lWrite' = FALSE
    /\ lastConfigDone' = updCert
    /\ lastUpdateDone' = updCert
    /\ updPc' = "idle"
    /\ UNCHANGED <<nCert, nListener, lRead, updCert, updCount, accPc, accCfg,
                   accSeen, lastConn, tlsRest>>

\* mutableTLSListener.Accept is called.
AcceptCall(a) ==
    /\ nListener = "bound"
    /\ accPc[a] = "idle"
    /\ accPc' = [accPc EXCEPT ![a] = "inner"]
    /\ accSeen' = [accSeen EXCEPT ![a] = [config |-> lastConfigDone,
                                         update |-> lastUpdateDone]]
    /\ UNCHANGED <<nCert, nListener, lConfig, lRead, lWrite, updPc, updCert,
                   updCount, lastConfigDone, lastUpdateDone, accCfg, lastConn,
                   tlsRest>>

\* Accept: l.Listener.Accept() returns a connection.
AcceptInner(a) ==
    /\ accPc[a] = "inner"
    /\ accPc' = [accPc EXCEPT ![a] = "rlock"]
    /\ UNCHANGED <<nCert, nListener, lConfig, lRead, lWrite, updPc, updCert,
                   updCount, lastConfigDone, lastUpdateDone, accCfg, accSeen,
                   lastConn, tlsRest>>

\* Accept: l.mu.RLock()
AcceptRLock(a) ==
    /\ accPc[a] = "rlock"
    /\ ~lWrite
    /\ lRead' = lRead \cup {a}
    /\ accPc' = [accPc EXCEPT ![a] = "read"]
    /\ UNCHANGED <<nCert, nListener, lConfig, lWrite, updPc, updCert, updCount,
                   lastConfigDone, lastUpdateDone, accCfg, accSeen, lastConn,
                   tlsRest>>

\* Accept: config := l.config
AcceptRead(a) ==
    /\ accPc[a] = "read"
    /\ accCfg' = [accCfg EXCEPT ![a] = lConfig]
    /\ accPc' = [accPc EXCEPT ![a] = "return"]
    /\ UNCHANGED <<nCert, nListener, lConfig, lRead, lWrite, updPc, updCert,
                   updCount, lastConfigDone, lastUpdateDone, accSeen, lastConn,
                   tlsRest>>

\* Accept: return tls.Server(c, config), the deferred RUnlock running.
AcceptReturn(a) ==
    /\ accPc[a] = "return"
    /\ lRead' = lRead \ {a}
    /\ accPc' = [accPc EXCEPT ![a] = "idle"]
    /\ lastConn' = [lastConn EXCEPT ![a] =
          [valid |-> TRUE, cfg |-> accCfg[a], atReturn |-> lConfig,
           configAtCall |-> accSeen[a].config,
           updateAtCall |-> accSeen[a].update]]
    /\ UNCHANGED <<nCert, nListener, lConfig, lWrite, updPc, updCert, updCount,
                   lastConfigDone, lastUpdateDone, accCfg, accSeen, tlsRest>>

(***************************************************************************)
(* Binding the endpoints: Socket.Listen and Network.Listen                 *)
(***************************************************************************)
lsnRest == <<dbVars, memVars, authVars, joinVars, runVars, tlsVars, notVars,
             hs, apx, tab,
             stopVars, svcVars>>

\* A connection to the control path is accepted: the path names a socket
\* whose listener is open.
socketLive == sockFile # 0 /\ sockFile \in sockOpen

\* Socket.Listen, net.Dial: a connection that succeeds ends Listen with
\* "already running"; otherwise Listen goes on to removeStale.
SocketDial(d) ==
    /\ skPc[d] = "idle"
    /\ skPc' = [skPc EXCEPT ![d] = IF socketLive THEN "refused" ELSE "stale"]
    /\ UNCHANGED <<sockFile, sockOpen, nwPc, addrHolder, lsnRest>>

\* removeStale: nothing to do without a file; otherwise os.Remove of
\* whatever the path names at this moment, and its error ends Listen.
SocketRemoveStale(d, ok) ==
    /\ skPc[d] = "stale"
    /\ IF sockFile = 0
       THEN /\ skPc' = [skPc EXCEPT ![d] = "bind"]
            /\ UNCHANGED sockFile
       ELSE IF ok
       THEN /\ skPc' = [skPc EXCEPT ![d] = "bind"]
            /\ sockFile' = 0
       ELSE /\ skPc' = [skPc EXCEPT ![d] = "failed"]
            /\ UNCHANGED sockFile
    /\ UNCHANGED <<sockOpen, nwPc, addrHolder, lsnRest>>

\* net.ListenUnix and localSetAccess: binding fails while the path names a
\* file; a failed localSetAccess closes the new listener, and closing a
\* unix listener unlinks its path.
SocketBind(d, access) ==
    /\ skPc[d] = "bind"
    /\ IF sockFile # 0
       THEN /\ skPc' = [skPc EXCEPT ![d] = "failed"]
            /\ UNCHANGED <<sockFile, sockOpen>>
       ELSE IF access
       THEN /\ skPc' = [skPc EXCEPT ![d] = "serving"]
            /\ sockFile' = d
            /\ sockOpen' = sockOpen \cup {d}
       ELSE /\ skPc' = [skPc EXCEPT ![d] = "failed"]
            /\ UNCHANGED <<sockFile, sockOpen>>
    /\ UNCHANGED <<nwPc, addrHolder, lsnRest>>

\* Socket.Close of a serving daemon, or the end of a daemon whose Listen
\* returned an error: the listener is closed, and closing it unlinks the
\* path it was bound to; the daemon may be started again.
SocketClose(d) ==
    /\ skPc[d] \in {"serving", "refused", "failed"}
    /\ skPc' = [skPc EXCEPT ![d] = "idle"]
    /\ sockOpen' = sockOpen \ {d}
    /\ sockFile' = IF d \in sockOpen THEN 0 ELSE sockFile
    /\ UNCHANGED <<nwPc, addrHolder, lsnRest>>

\* The daemon's process is killed: its listener goes, the file stays.
DaemonKilled(d) ==
    /\ skPc[d] = "serving"
    /\ skPc' = [skPc EXCEPT ![d] = "idle"]
    /\ sockOpen' = sockOpen \ {d}
    /\ UNCHANGED <<sockFile, nwPc, addrHolder, lsnRest>>

\* Network.Listen: net.Dial succeeds against a held address and Listen
\* returns "already running"; net.Listen itself fails on an address that
\* was taken after the dial.  Either way the holder stays.
NetworkListenAddr(d) ==
    /\ nwPc[d] = "idle"
    /\ IF addrHolder # 0
       THEN /\ nwPc' = [nwPc EXCEPT ![d] = "failed"]
            /\ UNCHANGED addrHolder
       ELSE /\ nwPc' = [nwPc EXCEPT ![d] = "serving"]
            /\ addrHolder' = d
    /\ UNCHANGED <<skPc, sockFile, sockOpen, lsnRest>>

\* Network.Close, or the end of a daemon whose Listen returned an error.
NetworkCloseAddr(d) ==
    /\ nwPc[d] \in {"serving", "failed"}
    /\ nwPc' = [nwPc EXCEPT ![d] = "idle"]
    /\ addrHolder' = IF addrHolder = d THEN 0 ELSE addrHolder
    /\ UNCHANGED <<skPc, sockFile, sockOpen, lsnRest>>

(***************************************************************************)
(* The engine transport: dqliteNetworkDial and POST /database              *)
(***************************************************************************)
NoHeaders == [version |-> "", upgrade |-> ""]
NoAnswer == [code |-> 0, upgrade |-> ""]
NoDial == [pc |-> "idle", from |-> "none", by |-> "none", req |-> NoHeaders,
           resp |-> NoAnswer, conn |-> "none", err |-> "nil"]
NoCheck == [pc |-> "none", local |-> <<>>, lists |-> <<>>,
            res |-> [behind |-> FALSE, err |-> FALSE]]

hsRest == <<dbVars, memVars, authVars, joinVars, runVars, tlsVars, notVars,
            lsnVars, apx, tab,
             stopVars, svcVars>>

\* strconv.Atoi on the version headers.
Atoi(v) ==
    CASE v = "0" -> [ok |-> TRUE, n |-> 0]
      [] v = "1" -> [ok |-> TRUE, n |-> 1]
      [] OTHER -> [ok |-> FALSE, n |-> 0]

\* databasePost: an absent version header counts as "0"; a version that
\* does not parse and an Upgrade header other than dqlite are 400;
\* everything else is response.EmptySyncResponse, a 200 without an
\* Upgrade header.
databasePost(req) ==
    LET versionHeader == IF req.version = "" THEN "0" ELSE req.version
    IN  IF ~Atoi(versionHeader).ok THEN [code |-> 400, upgrade |-> ""]
        ELSE IF req.upgrade # "dqlite" THEN [code |-> 400, upgrade |-> ""]
        ELSE [code |-> 200, upgrade |-> ""]

\* dqliteNetworkDial after http.ReadResponse: the error it returns.
dialError(resp) ==
    IF resp.code = 426 THEN "Upgrade needed"
    ELSE IF resp.code # 101 THEN "Dialing failed"
    ELSE IF resp.upgrade # "dqlite" THEN "Missing or unexpected Upgrade"
    ELSE "nil"

\* dqliteNetworkDial: the connection is made and the request written.
DialSend(k) ==
    /\ hs[k].pc = "idle"
    /\ hs' = [hs EXCEPT ![k] =
                 [NoDial EXCEPT !.pc = "sent", !.from = "dialer",
                                !.req = [version |-> "1",
                                         upgrade |-> "dqlite"],
                                !.conn = "open"]]
    /\ UNCHANGED hsRest

\* Some other client sends a request to the endpoint.
ClientRequest(k, v, u) ==
    /\ hs[k].pc = "idle"
    /\ hs' = [hs EXCEPT ![k] =
                 [NoDial EXCEPT !.pc = "sent", !.from = "client",
                                !.req = [version |-> v, upgrade |-> u],
                                !.conn = "open"]]
    /\ UNCHANGED hsRest

\* The request is served by databasePost.
DatabasePostAnswer(k) ==
    /\ hs[k].pc = "sent"
    /\ hs' = [hs EXCEPT ![k].pc = "answered", ![k].by = "handler",
                        ![k].resp = databasePost(hs[k].req)]
    /\ UNCHANGED hsRest

\* The dialer's request is answered by a server that is not this handler.
PeerAnswer(k, code, u) ==
    /\ hs[k].pc = "sent"
    /\ hs[k].from = "dialer"
    /\ hs' = [hs EXCEPT ![k].pc = "answered", ![k].by = "peer",
                        ![k].resp = [code |-> code, upgrade |-> u]]
    /\ UNCHANGED hsRest

\* dqliteNetworkDial reads the answer: without an error revert.Success()
\* keeps the connection, which is returned to the engine; with one the
\* deferred revert.Fail() closes it.
DialReceive(k) ==
    /\ hs[k].pc = "answered"
    /\ hs[k].from = "dialer"
    /\ hs' = [hs EXCEPT ![k].pc = "done",
                        ![k].err = dialError(hs[k].resp),
                        ![k].conn = IF dialError(hs[k].resp) = "nil"
                                    THEN "engine" ELSE "closed"]
    /\ UNCHANGED hsRest

(***************************************************************************)
(* The API extension check of Open                                         *)
(***************************************************************************)
apxRest == <<dbVars, memVars, authVars, joinVars, runVars, tlsVars, notVars,
             lsnVars, hs, tab,
             stopVars, svcVars>>

\* The lists a build may carry, and what a member row may hold.
LabelLists == UNION {[1..n -> Labels] : n \in 0..MaxLabels}
MemberLists == LabelLists \cup {Nil}

\* Open: checkAPIExtensions on the local list and the other members'.
OpenCheckExtensions ==
    /\ apx.pc = "idle"
    /\ apx' = [apx EXCEPT !.pc = "checked",
                          !.res = checkAPIExtensions(apx.local, apx.lists)]
    /\ UNCHANGED apxRest

\* The node waits because others are behind; a member is restarted with
\* another build and Open compares again.
MemberRestarted(i, l) ==
    /\ apx.pc = "checked"
    /\ apx.res.behind /\ ~apx.res.err
    /\ i \in 1..Len(apx.lists)
    /\ apx' = [apx EXCEPT !.pc = "idle", !.lists[i] = l]
    /\ UNCHANGED apxRest

(***************************************************************************)
(* core_cluster_members as a table of rows                                 *)
(***************************************************************************)
NoCall == [op |-> "none", name |-> "", err |-> "nil", before |-> {}]
NoTable == [rows |-> {}, nextId |-> 1, last |-> NoCall]

tabRest == <<dbVars, memVars, authVars, joinVars, runVars, tlsVars, notVars,
             lsnVars, hs, apx,
             stopVars, svcVars>>

\* CoreClusterMemberExists: some row carries the name.
CoreClusterMemberExists(rows, name) == \E r \in rows : r.name = name

\* The table's constraints: name and address are unique.
uniqueViolation(rows, object) ==
    \E r \in rows : r.name = object.name \/ r.address = object.address

\* An insert that does not look for the name first.
CreateCoreClusterMemberRowBlind(t, object) ==
    IF uniqueViolation(t.rows, object)
    THEN [err |-> "constraint", rows |-> t.rows, nextId |-> t.nextId]
    ELSE [err |-> "nil", nextId |-> t.nextId + 1,
          rows |-> t.rows \cup {[id |-> t.nextId, name |-> object.name,
                                  address |-> object.address]}]

\* CreateCoreClusterMember on the rows: Conflict when the name exists,
\* else the INSERT, which the table may refuse.
CreateCoreClusterMemberRow(t, object) ==
    IF CoreClusterMemberExists(t.rows, object.name)
    THEN [err |-> "Conflict", rows |-> t.rows, nextId |-> t.nextId]
    ELSE IF uniqueViolation(t.rows, object)
    THEN [err |-> "constraint", rows |-> t.rows, nextId |-> t.nextId]
    ELSE [err |-> "nil", nextId |-> t.nextId + 1,
          rows |-> t.rows \cup {[id |-> t.nextId, name |-> object.name,
                                  address |-> object.address]}]

\* A bootstrap or an admission creates a member in its transaction.
MemberCreate(name, address) ==
    /\ tab.nextId <= MaxId
    /\ LET res == CreateCoreClusterMemberRow(
                      tab, [name |-> name, address |-> address])
       IN tab' = [rows |-> res.rows, nextId |-> res.nextId,
                  last |-> [op |-> "create", name |-> name,
                            err |-> res.err, before |-> tab.rows]]
    /\ UNCHANGED tabRest

\* A remove deletes the rows with the member's address; the call fails
\* unless exactly one row goes.
MemberDelete(address) ==
    /\ LET gone == {r \in tab.rows : r.address = address}
           err == IF gone = {} THEN "NotFound"
                  ELSE IF Cardinality(gone) > 1 THEN "many" ELSE "nil"
       IN tab' = [tab EXCEPT
                     !.rows = IF err = "nil" THEN tab.rows \ gone ELSE @,
                     !.last = [op |-> "delete", name |-> "", err |-> err,
                               before |-> tab.rows]]
    /\ UNCHANGED tabRest

(***************************************************************************)
(* DB.Stop and the heartbeat loop                                          *)
(***************************************************************************)
NoStop == [pc |-> "idle", wasReady |-> FALSE, log |-> <<>>]

stopRest == <<pc, bootstrap, openErr, otherNodesBehind, members, schemaRow,
              fence, txPc, lastTx, memVars, authVars, extRest>>

\* DB.IsOpen: nil only for the status Ready.
IsOpen(s) == s = "Ready"

\* DB.Stop under statusLock: the context is cancelled and the status set
\* to Offline.
StopBegin ==
    /\ dst.pc = "idle"
    /\ cancelled' = TRUE
    /\ status' = "Offline"
    /\ dst' = [pc |-> "isOpen", wasReady |-> (status = "Ready"),
               log |-> <<>>]
    /\ UNCHANGED <<hb, sqlDb, engine, stopRest>>

\* DB.Stop: db.db.Close() if IsOpen returns nil; its error is dropped.
StopCloseDb ==
    /\ dst.pc = "isOpen"
    /\ IF IsOpen(status)
       THEN /\ sqlDb' = "closed"
            /\ dst' = [dst EXCEPT !.pc = "dqlite",
                                  !.log = Append(@, "db")]
       ELSE /\ dst' = [dst EXCEPT !.pc = "dqlite"]
            /\ UNCHANGED sqlDb
    /\ UNCHANGED <<status, cancelled, hb, engine, stopRest>>

\* DB.Stop: db.dqlite.Close() if there is an engine, and the return.
StopCloseEngine(ok) ==
    /\ dst.pc = "dqlite"
    /\ IF engine = "nil"
       THEN /\ dst' = [dst EXCEPT !.pc = "returned"]
            /\ UNCHANGED engine
       ELSE /\ engine' = IF ok THEN "closed" ELSE engine
            /\ dst' = [dst EXCEPT !.pc = "returned",
                                  !.log = Append(@, "dqlite")]
    /\ UNCHANGED <<status, cancelled, hb, sqlDb, stopRest>>

\* Bootstrap and Join end with "go db.loopHeartbeat()".
loopHeartbeat ==
    /\ pc = "done"
    /\ hb = "none"
    /\ hb' = "heartbeat"
    /\ UNCHANGED <<status, cancelled, sqlDb, engine, dst, stopRest>>

\* heartbeat: nothing is done unless IsOpen returns nil.
heartbeat ==
    /\ hb = "heartbeat"
    /\ hb' = IF IsOpen(status) THEN "round" ELSE "sleep"
    /\ UNCHANGED <<status, cancelled, sqlDb, engine, dst, stopRest>>

\* heartbeat: client.Heartbeat with BeginRound; an error is logged.
heartbeatRound ==
    /\ hb = "round"
    /\ hb' = "sleep"
    /\ UNCHANGED <<status, cancelled, sqlDb, engine, dst, stopRest>>

\* loopHeartbeat: time.Sleep is over and the loop turns, whatever the
\* state of db.ctx.
heartbeatSleep ==
    /\ hb = "sleep"
    /\ hb' = "heartbeat"
    /\ UNCHANGED <<status, cancelled, sqlDb, engine, dst, stopRest>>

(***************************************************************************)
(* Daemon.Run: extensionServersMu and the exit callback                    *)
(***************************************************************************)
FreeMutex == [writer |-> FALSE, readers |-> 0, waiting |-> {}]
NoHolder == [Run |-> 0, init |-> 0, StartAPI |-> 0]
NoCaller == [op |-> "none", pc |-> "idle"]

svcRest == <<dbVars, memVars, authVars, joinVars, runVars, tlsVars, notVars,
             lsnVars, hs, apx, tab, stopVars>>

\* extensionServersMu.Lock() returns once nobody holds the mutex.
canLock(mu) == ~mu.writer /\ mu.readers = 0

\* extensionServersMu.RLock() returns once no writer holds the mutex or
\* waits for it.
canRLock(mu) == ~mu.writer /\ mu.waiting = {}

\* Daemon.Run: d.extensionServersMu.Lock() before the copy of
\* args.ExtensionServers.
RunLock ==
    /\ mainPc = "lock"
    /\ canLock(extensionServersMu)
    /\ extensionServersMu' = [extensionServersMu EXCEPT !.writer = TRUE]
    /\ muHeld' = [muHeld EXCEPT !.Run = @ + 1]
    /\ mainPc' = "copy"
    /\ UNCHANGED <<apiPc, callPc, parentDone, exitPc, svcRest>>

\* Daemon.Run: the copy of the extension servers. A name that is no FQDN
\* or is reserved makes Run return its error from inside the loop; else
\* the mutex is unlocked after the loop.
RunCopyServers(kind) ==
    /\ mainPc = "copy"
    /\ IF kind = "ok"
       THEN /\ extensionServersMu' =
                   [extensionServersMu EXCEPT !.writer = FALSE]
            /\ muHeld' = [muHeld EXCEPT !.Run = @ - 1]
            /\ mainPc' = "init"
       ELSE /\ mainPc' = "returned"
            /\ UNCHANGED <<extensionServersMu, muHeld>>
    /\ UNCHANGED <<apiPc, callPc, parentDone, exitPc, svcRest>>

\* Daemon.init: d.extensionServersMu.RLock() before ValidateEndpoints.
InitRLock ==
    /\ mainPc = "init"
    /\ canRLock(extensionServersMu)
    /\ extensionServersMu' = [extensionServersMu EXCEPT !.readers = @ + 1]
    /\ muHeld' = [muHeld EXCEPT !.init = @ + 1]
    /\ mainPc' = "validate"
    /\ UNCHANGED <<apiPc, callPc, parentDone, exitPc, svcRest>>

\* Daemon.init: ValidateEndpoints. Its error is returned at once, and Run
\* returns it; else RUnlock and init goes on.
InitValidateEndpoints(ok) ==
    /\ mainPc = "validate"
    /\ IF ok
       THEN /\ extensionServersMu' =
                   [extensionServersMu EXCEPT !.readers = @ - 1]
            /\ muHeld' = [muHeld EXCEPT !.init = @ - 1]
            /\ mainPc' = "onStart"
       ELSE /\ mainPc' = "returned"
            /\ UNCHANGED <<extensionServersMu, muHeld>>
    /\ UNCHANGED <<apiPc, callPc, parentDone, exitPc, svcRest>>

\* Daemon.Run: the OnStart hook; its error is returned, else Run closes
\* ReadyChan and enters its select loop.
MainOnStart(ok) ==
    /\ mainPc = "onStart"
    /\ mainPc' = IF ok THEN "select" ELSE "returned"
    /\ UNCHANGED <<extensionServersMu, muHeld, apiPc, callPc, parentDone,
                   exitPc, svcRest>>

\* The context handed to Run is cancelled.
ParentCancel ==
    /\ ~parentDone
    /\ parentDone' = TRUE
    /\ UNCHANGED <<extensionServersMu, muHeld, mainPc, apiPc, callPc, exitPc,
                   svcRest>>

\* Daemon.Run, select: case <-ctx.Done(): return d.stop().
MainSelectDone ==
    /\ mainPc = "select"
    /\ parentDone
    /\ mainPc' = "returned"
    /\ UNCHANGED <<extensionServersMu, muHeld, apiPc, callPc, parentDone,
                   exitPc, svcRest>>

\* Daemon.Run, select: case err := <-d.shutdownDoneCh: return err. The
\* channel has no buffer: the receive completes the send of one exit
\* callback.
MainSelectReceive(k) ==
    /\ mainPc = "select"
    /\ exitPc[k] = "sending"
    /\ mainPc' = "returned"
    /\ exitPc' = [exitPc EXCEPT ![k] = "returned"]
    /\ UNCHANGED <<extensionServersMu, muHeld, apiPc, callPc, parentDone,
                   svcRest>>

\* State().Stop: d.stop() and the exit callback handed back.
StateStop(k) ==
    /\ mainPc \in {"onStart", "select"}
    /\ exitPc[k] = "idle"
    /\ exitPc' = [exitPc EXCEPT ![k] = "stopped"]
    /\ UNCHANGED <<extensionServersMu, muHeld, mainPc, apiPc, callPc,
                   parentDone, svcRest>>

\* The exit callback is invoked: d.shutdownDoneCh <- stopErr, which
\* returns when Run receives it.
ExitSend(k) ==
    /\ exitPc[k] = "stopped"
    /\ exitPc' = [exitPc EXCEPT ![k] = "sending"]
    /\ UNCHANGED <<extensionServersMu, muHeld, mainPc, apiPc, callPc,
                   parentDone, svcRest>>

\* StartAPI, called by POST /control: d.extensionServersMu.RLock() before
\* the second ValidateEndpoints.
StartAPIRLock ==
    /\ mainPc \in {"onStart", "select"}
    /\ apiPc = "idle"
    /\ canRLock(extensionServersMu)
    /\ extensionServersMu' = [extensionServersMu EXCEPT !.readers = @ + 1]
    /\ muHeld' = [muHeld EXCEPT !.StartAPI = @ + 1]
    /\ apiPc' = "validate"
    /\ UNCHANGED <<mainPc, callPc, parentDone, exitPc, svcRest>>

\* StartAPI: ValidateEndpoints. Its error is returned at once; else
\* RUnlock and StartAPI goes on without the mutex.
StartAPIValidateEndpoints(ok) ==
    /\ apiPc = "validate"
    /\ apiPc' = "returned"
    /\ IF ok
       THEN /\ extensionServersMu' =
                   [extensionServersMu EXCEPT !.readers = @ - 1]
            /\ muHeld' = [muHeld EXCEPT !.StartAPI = @ - 1]
       ELSE UNCHANGED <<extensionServersMu, muHeld>>
    /\ UNCHANGED <<mainPc, callPc, parentDone, exitPc, svcRest>>

\* A handler or a hook calls UpdateServers, ReloadCert or
\* ExtensionServers, which reaches its Lock or RLock; a Lock that waits
\* keeps later RLocks out.
LockedCallBegin(c, op) ==
    /\ mainPc \in {"onStart", "select"}
    /\ callPc[c].pc = "idle"
    /\ callPc' = [callPc EXCEPT ![c] = [op |-> op, pc |-> "wait"]]
    /\ extensionServersMu' =
          [extensionServersMu EXCEPT
              !.waiting = IF op = "UpdateServers" THEN @ \cup {c} ELSE @]
    /\ UNCHANGED <<muHeld, mainPc, apiPc, parentDone, exitPc, svcRest>>

\* Its Lock (UpdateServers) or RLock (ReloadCert, ExtensionServers)
\* returns.
LockedCallAcquire(c) ==
    /\ callPc[c].pc = "wait"
    /\ IF callPc[c].op = "UpdateServers"
       THEN /\ canLock(extensionServersMu)
            /\ extensionServersMu' =
                   [extensionServersMu EXCEPT !.writer = TRUE,
                                              !.waiting = @ \ {c}]
       ELSE /\ canRLock(extensionServersMu)
            /\ extensionServersMu' =
                   [extensionServersMu EXCEPT !.readers = @ + 1]
    /\ callPc' = [callPc EXCEPT ![c].pc = "hold"]
    /\ UNCHANGED <<muHeld, mainPc, apiPc, parentDone, exitPc, svcRest>>

\* Its Unlock or RUnlock; the call returns.
LockedCallRelease(c) ==
    /\ callPc[c].pc = "hold"
    /\ extensionServersMu' =
          IF callPc[c].op = "UpdateServers"
          THEN [extensionServersMu EXCEPT !.writer = FALSE]
          ELSE [extensionServersMu EXCEPT !.readers = @ - 1]
    /\ callPc' = [callPc EXCEPT ![c] = NoCaller]
    /\ UNCHANGED <<muHeld, mainPc, apiPc, parentDone, exitPc, svcRest>>

(***************************************************************************)
(* Initial states                                                          *)
(***************************************************************************)
PeerRows ==
    {MemberRow("", int, ext, api, "voter") :
        int \in Versions, ext \in Versions, api \in ExtLists}

\* The local member's row before this start: written by the admitting
\* member with the joiner's versions, or left by an older binary.
SelfRows ==
    {MemberRow("", LocalVersion.int, LocalVersion.ext, LocalVersion.api,
               "PENDING"),
     MemberRow("", 0, 0, <<"a">>, "PENDING")}

SchemaRows == {[int |-> 0, ext |-> 0],
               [int |-> LocalVersion.int, ext |-> LocalVersion.ext]}

\* A table holding every name, each row at its own address.
PopulatedTables(peerRows) ==
    {[n \in Names |-> [t[n] EXCEPT !.address = AddressOf(n)]] :
        t \in {u \in [Names -> peerRows \cup SelfRows] :
                  /\ u[LocalName] \in SelfRows
                  /\ \A p \in Peers : u[p] \in peerRows}}

\* The schemas row never runs ahead of a member (the updates are committed
\* only once every member has reached them).
SchemaRowFits(row, tbl) ==
    \A n \in DOMAIN tbl :
        /\ row.int <= tbl[n].schema_internal
        /\ row.ext <= tbl[n].schema_external

\* NewDB, and the cluster's tables as this daemon finds them.
InitCoordinator ==
    /\ status = "NotReady"
    /\ pc = "idle"
    /\ bootstrap = FALSE
    /\ openErr = "nil"
    /\ otherNodesBehind = FALSE
    /\ cancelled = FALSE
    /\ fence = FenceNone
    /\ txPc = "idle"
    /\ lastTx = [call |-> 0, seen |-> "NotReady", code |-> 0, ran |-> FALSE]

\* The membership requests and the daemon's listeners at rest.
InitMembershipIdle ==
    /\ tokens = {}
    /\ trust = {}
    /\ txOwner = 0
    /\ snapshot = <<>>
    /\ admPc = <<>>
    /\ admReq = <<>>
    /\ admRes = <<>>
    /\ lastRemove = <<>>

\* No join in progress.
InitJoinIdle ==
    /\ jPc = "idle"
    /\ jIdx = 0
    /\ jLog = <<>>
    /\ jInfo = 0
    /\ jErr = "nil"
    /\ jMatches = FALSE
    /\ peerMode = <<>>
    /\ peerTrust = {}
    /\ jSteps = <<>>
    /\ jNotify = <<>>

\* Daemon.Run has not started.
InitRunIdle ==
    /\ runPc = "init"
    /\ dbHandle = "nil"
    /\ listeners = "nil"
    /\ readyClosed = FALSE
    /\ shutdownCancelled = FALSE
    /\ oncePc = "new"
    /\ onceVal = "none"
    /\ stopPc = [s \in Stoppers |-> "idle"]
    /\ stopRes = [s \in Stoppers |-> "none"]
    /\ bodyPc = "none"
    /\ dqliteErr = FALSE
    /\ stopLog = <<>>
    /\ rdPc = "idle"
    /\ lastReady = NoReady

\* NewNetwork: an endpoint with its first certificate, not yet bound.
InitNetwork ==
    /\ nCert = 0
    /\ nListener = "nil"
    /\ lConfig = 0
    /\ lRead = {}
    /\ lWrite = FALSE
    /\ updPc = "idle"
    /\ updCert = 0
    /\ updCount = 0
    /\ lastConfigDone = 0
    /\ lastUpdateDone = 0
    /\ accPc = [a \in Acceptors |-> "idle"]
    /\ accCfg = [a \in Acceptors |-> 0]
    /\ accSeen = [a \in Acceptors |-> [config |-> 0, update |-> 0]]
    /\ lastConn = [a \in Acceptors |-> NoConn]

\* No PATCH /database request has arrived.
InitNotifyIdle ==
    /\ notPc = [n \in Notifiers |-> "idle"]
    /\ notRes = [n \in Notifiers |-> NoNotify]

\* No daemon has bound anything: no socket file, the address free.
InitListenIdle ==
    /\ skPc = [d \in Daemons |-> "idle"]
    /\ sockFile = 0
    /\ sockOpen = {}
    /\ nwPc = [d \in Daemons |-> "idle"]
    /\ addrHolder = 0

\* No engine connection is being set up.
InitDialIdle == hs = [k \in Dials |-> NoDial]

\* DB.Stop has not been called; the engine, the SQL handle and the
\* heartbeat loop are there if the database has been started.
InitStopIdle ==
    /\ hb = IF pc = "done" THEN "sleep" ELSE "none"
    /\ sqlDb = IF status = "Ready" THEN "open" ELSE "nil"
    /\ engine = IF pc = "idle" THEN "nil" ELSE "running"
    /\ dst = NoStop

\* NewDaemon has returned and Run has not been called.
InitServeIdle ==
    /\ extensionServersMu = FreeMutex
    /\ muHeld = NoHolder
    /\ mainPc = "lock"
    /\ apiPc = "idle"
    /\ callPc = [c \in Callers |-> NoCaller]
    /\ parentDone = FALSE
    /\ exitPc = [k \in Exits |-> "idle"]

InitOpIdle ==
    /\ InitListenIdle
    /\ InitDialIdle
    /\ apx = NoCheck
    /\ tab = NoTable
    /\ InitStopIdle
    /\ InitServeIdle

InitExtIdle ==
    /\ InitJoinIdle
    /\ InitRunIdle
    /\ InitNetwork
    /\ InitNotifyIdle
    /\ InitOpIdle

InitDaemonIdle ==
    /\ serverCert = 0
    /\ diskServerCert = 0
    /\ endpoints = <<>>
    /\ ctlPc = <<>>
    /\ ctlReq = <<>>
    /\ hostAddress = <<>>
    /\ swapped = FALSE
    /\ daemon = "running"
    /\ lastAuth = <<>>
    /\ hookLog = {}

InitDB ==
    /\ InitCoordinator
    /\ InitMembershipIdle
    /\ InitDaemonIdle
    /\ InitExtIdle
    /\ members \in PopulatedTables(PeerRows) \cup {EmptyTable}
    /\ schemaRow \in SchemaRows
    /\ SchemaRowFits(schemaRow, members)
    /\ DOMAIN members = {} => schemaRow = [int |-> 0, ext |-> 0]

\* The member rows of a cluster whose members each run one of the builds.
BinaryRows ==
    {MemberRow("", b.int, b.ext, b.api, "voter") : b \in Binaries}

InitTx ==
    /\ InitCoordinator
    /\ InitMembershipIdle
    /\ InitDaemonIdle
    /\ InitExtIdle
    /\ members \in PopulatedTables(BinaryRows) \cup {EmptyTable}
    /\ schemaRow \in SchemaRows
    /\ SchemaRowFits(schemaRow, members)
    /\ DOMAIN members = {} => schemaRow = [int |-> 0, ext |-> 0]

\* A cluster none of whose members is ahead of the local binary.
InitLive ==
    /\ InitDB
    /\ DOMAIN members # {}
    /\ \A n \in DOMAIN members : RowNotAhead(members[n])

\* The tokens issued for the two joiners.
IssuedTokens ==
    {{[secret |-> "s1", name |-> "c1"], [secret |-> "s2", name |-> "c2"]},
     {[secret |-> "s1", name |-> "c1"]}}

\* A bootstrapped member whose database is Ready: its own row, PENDING
\* until the first heartbeat, and the tokens issued so far.
InitMem ==
    /\ status = "Ready"
    /\ pc = "done"
    /\ bootstrap = TRUE
    /\ openErr = "nil"
    /\ otherNodesBehind = FALSE
    /\ cancelled = FALSE
    /\ fence = FenceNone
    /\ txPc = "idle"
    /\ lastTx = [call |-> 0, seen |-> "NotReady", code |-> 0, ran |-> FALSE]
    /\ schemaRow = [int |-> LocalVersion.int, ext |-> LocalVersion.ext]
    /\ InitDaemonIdle
    /\ InitExtIdle
    /\ \E role \in {"PENDING", "voter"} :
          members = [n \in {LocalName} |->
                        MemberRow(AddressOf(LocalName), LocalVersion.int,
                                  LocalVersion.ext, LocalVersion.api, role)]
    /\ tokens \in IssuedTokens
    /\ trust = {LocalName}
    /\ txOwner = 0
    /\ snapshot = <<>>
    /\ admPc = [r \in Requests |-> "idle"]
    /\ admReq = [r \in Requests |-> [name |-> "", secret |-> ""]]
    /\ admRes = [r \in Requests |-> "none"]
    /\ lastRemove = [seq |-> 0, target |-> "", accepted |-> FALSE,
                     err |-> "nil"]

\* A daemon after init and before POST /control: its first server
\* certificate, and the core listener serving with it when a pre-init
\* listen address is configured.
InitAuth ==
    /\ InitCoordinator
    /\ InitMembershipIdle
    /\ members = EmptyTable
    /\ schemaRow = [int |-> 0, ext |-> 0]
    /\ serverCert = [gen |-> 0, name |-> LocalName]
    /\ diskServerCert = serverCert
    /\ endpoints \in {Add(Down(<<>>), "core", ServerCertInfo(serverCert)),
                      Down(<<>>)}
    /\ ctlPc = [c \in Ctl |-> "idle"]
    /\ ctlReq = [c \in Ctl |-> [kind |-> "", name |-> "", matches |-> FALSE,
                                joined |-> FALSE, preInit |-> TRUE,
                                before |-> <<>>]]
    /\ hostAddress = <<>>
    /\ swapped = FALSE
    /\ daemon = "running"
    /\ lastAuth = NoAuth
    /\ hookLog = {}
    /\ InitExtIdle

\* A daemon about to join a cluster of the two peers: the token issued for
\* it is still there or has gone, and the member behind each candidate
\* address behaves in one of the five ways.
InitJoin ==
    /\ InitCoordinator
    /\ InitDaemonIdle
    /\ InitRunIdle
    /\ InitNetwork
    /\ InitNotifyIdle
    /\ InitOpIdle
    /\ members = [n \in Peers |->
                     MemberRow(AddressOf(n), LocalVersion.int,
                               LocalVersion.ext, LocalVersion.api, "voter")]
    /\ schemaRow = [int |-> LocalVersion.int, ext |-> LocalVersion.ext]
    /\ tokens \in {{[secret |-> JoinerSecret, name |-> LocalName]}, {}}
    /\ trust = {}
    /\ txOwner = 0
    /\ snapshot = <<>>
    /\ admPc = <<>>
    /\ admReq = <<>>
    /\ admRes = <<>>
    /\ lastRemove = <<>>
    /\ jPc = "idle"
    /\ jIdx = 0
    /\ jLog = <<>>
    /\ jInfo = 0
    /\ jErr = "nil"
    /\ jMatches = FALSE
    /\ peerMode \in [Candidates -> PeerModes]
    /\ peerTrust = {}
    /\ jSteps = <<>>
    /\ jNotify = <<>>

\* A daemon whose Run has just been called.
InitRun ==
    /\ InitCoordinator
    /\ InitMembershipIdle
    /\ InitDaemonIdle
    /\ InitJoinIdle
    /\ InitRunIdle
    /\ InitNetwork
    /\ InitNotifyIdle
    /\ InitOpIdle
    /\ members = EmptyTable
    /\ schemaRow = [int |-> 0, ext |-> 0]

\* The coordinator before its start, in a new cluster or in one whose
\* members each run one of the builds.
InitNotify ==
    /\ InitCoordinator
    /\ InitMembershipIdle
    /\ InitDaemonIdle
    /\ InitExtIdle
    /\ members \in PopulatedTables(BinaryRows) \cup {EmptyTable}
    /\ schemaRow = [int |-> 0, ext |-> 0]

\* A network endpoint just created, on a daemon at rest.
InitTLS ==
    /\ InitCoordinator
    /\ InitMembershipIdle
    /\ InitDaemonIdle
    /\ InitJoinIdle
    /\ InitRunIdle
    /\ InitNetwork
    /\ InitNotifyIdle
    /\ InitOpIdle
    /\ members = EmptyTable
    /\ schemaRow = [int |-> 0, ext |-> 0]

(***************************************************************************)
(* Specifications                                                          *)
(***************************************************************************)
CoordinatorStep ==
    \/ \E ok \in BOOLEAN : Bootstrap(ok)
    \/ \E ok \in BOOLEAN : Join(ok)
    \/ OpenStart
    \/ \E ok \in BOOLEAN : EngineReady(ok)
    \/ \E ok \in BOOLEAN : EnsureTx(ok)
    \/ \E ok \in BOOLEAN : APITx(ok)
    \/ AfterRetry
    \/ WaitTimeout
    \/ \E ok \in BOOLEAN : OpenReturn(ok)
    \/ JoinLoop
    \/ \E ok \in BOOLEAN : BootstrapCreate(ok)

NextDB ==
    \/ CoordinatorStep
    \/ NotifyUpgraded
    \/ Stop
    \/ \E p \in Peers, b \in Binaries : PeerPublish(p, b)

\* The coordinator in a cluster whose members upgrade, with Stop.
SpecDB == InitDB /\ [][NextDB]_vars

Spec == SpecDB

NextTx ==
    \/ NextDB
    \/ TransactionCall
    \/ \E ok \in BOOLEAN : TransactionRun(ok)

\* The coordinator with a caller of Transaction.
SpecTx == InitTx /\ [][NextTx]_vars

\* The steps of a Join whose engine and transactions do not fail.
LiveStep ==
    \/ Join(TRUE)
    \/ OpenStart
    \/ EngineReady(TRUE)
    \/ EnsureTx(TRUE)
    \/ APITx(TRUE)
    \/ AfterRetry
    \/ WaitTimeout
    \/ OpenReturn(TRUE)
    \/ JoinLoop

NextLive ==
    \/ LiveStep
    \/ NotifyUpgraded
    \/ \E p \in Peers : PeerPublish(p, LocalVersion)

\* A Join that is never stopped while the other members upgrade to the
\* local build.  The goroutine running Join keeps running and the 30 s
\* timer of waitUpgrade fires: weak fairness of its steps.  Nothing is
\* assumed of the peers or of the notifications.
LiveSpec == InitLive /\ [][NextLive]_vars /\ WF_vars(LiveStep)

(***************************************************************************)
(* The fence: properties of SpecDB                                         *)
(***************************************************************************)
LocalSchema == [int |-> LocalVersion.int, ext |-> LocalVersion.ext]

\* C2: on a start that is not a bootstrap the status is Ready only after a
\* fence pass that read every member row with schema_internal,
\* schema_external and api_extensions equal to the local binary's values,
\* and whenever Open returns an error the status is not Ready.
ReadyOnlyAfterEqualFence ==
    /\ (status = "Ready" /\ ~bootstrap) =>
          /\ fence.schemaRead /\ fence.schemaEqual
          /\ fence.apiRead /\ fence.apiEqual
    /\ (pc = "returned" /\ openErr # "nil") => status # "Ready"

\* A Join has ended with the status Ready after a complete fence pass.
JoinedReady ==
    /\ ~bootstrap
    /\ pc = "done"
    /\ status = "Ready"
    /\ fence.apiRead
    /\ \A n \in Names : RowEqual(members[n])

\* C3: when the fence has read a member that is ahead of the local binary
\* in any component, the status is neither Waiting nor Ready, and Open
\* returns with a non-retryable error and the status Offline.
AheadIsHardError ==
    (~bootstrap /\ fence.ahead) =>
        /\ status \notin {"Waiting", "Ready"}
        /\ pc = "returned" =>
              /\ openErr \in {"behind", "other"}
              /\ status = "Offline"

\* C5 as stated: a fence pass advances the schemas row only when every
\* member row holds the local schema versions and the local API extensions.
MigrateOnlyWhenAllEqual ==
    [][(schemaRow' # schemaRow /\ ~bootstrap) =>
          \A n \in DOMAIN members' : RowEqual(members'[n])]_vars

\* C5: a fence pass advances the schemas row only when every member row
\* holds the local schema versions (internal and external); the API
\* extension lists are compared afterwards, in a transaction of their own.
MigrateOnlyWhenSchemasEqual ==
    [][(schemaRow' # schemaRow /\ ~bootstrap) =>
          /\ schemaRow' = LocalSchema
          /\ \A n \in DOMAIN members' :
                /\ members'[n].schema_internal = LocalVersion.int
                /\ members'[n].schema_external = LocalVersion.ext]_vars

\* A fence pass has committed the schema updates while a member row still
\* holds another API extension list.
MigratedBeforeAPICheck ==
    /\ ~bootstrap
    /\ fence.migrated
    /\ pc = "apiTx"
    /\ schemaRow = LocalSchema
    /\ \E n \in DOMAIN members : members[n].api_extensions # LocalVersion.api

\* The status transitions of the coordinator.
StatusEdges ==
    {<<"NotReady", "Starting">>, <<"Starting", "Ready">>,
     <<"Starting", "Waiting">>, <<"Waiting", "Ready">>,
     <<"Waiting", "Waiting">>, <<"Ready", "Offline">>}

\* C10: as long as Stop has not been called, the status changes only along
\* the listed transitions or to Offline, and a coordinator that is waiting
\* for its peers reports Waiting until it reports Ready.
StatusFollowsEdges ==
    [][(~cancelled' /\ status' # status) =>
          /\ <<status, status'>> \in StatusEdges \/ status' = "Offline"
          /\ (status = "Waiting" /\ openErr = "graceful") =>
                status' = "Ready"]_vars

\* Every other member has published the local binary's versions.
AllPublished == \A p \in Peers : RowEqual(members[p])

\* C4: a fence that found a member behind and none ahead sets the status
\* Waiting and blocks; the wait ends only by a notification or the timer;
\* Join then runs Open again from its first step; and once every member has
\* published the local versions the status eventually becomes Ready.
WaitThenReady ==
    /\ [][(pc = "afterRetry" /\ pc' # pc /\ fence.behind /\ fence.clean) =>
             (status' = "Waiting" /\ pc' = "waiting")]_vars
    /\ [][(pc = "waiting" /\ pc' # pc) =>
             (pc' = "openReturn" /\ (NotifyUpgraded \/ WaitTimeout))]_vars
    /\ [][(pc = "returned" /\ openErr = "graceful" /\ pc' # pc) =>
             pc' = "open"]_vars
    /\ [][(pc = "open" /\ pc' # pc) =>
             (pc' = "ready" /\ fence' = FenceNone)]_vars
    /\ AllPublished ~> (status = "Ready")

\* The coordinator is blocked in Waiting behind a member, none being ahead.
WaitingForPeers ==
    /\ pc = "waiting"
    /\ status = "Waiting"
    /\ fence.behind
    /\ fence.clean
    /\ \E p \in Peers : RowBehind(members[p])

(***************************************************************************)
(* Transaction: properties of SpecTx                                       *)
(***************************************************************************)
\* C9: a call of Transaction is let through only when the status it reads
\* is Ready or Waiting; in any other status it returns 503, f is not
\* invoked and the tables are left as they were; f runs only for a call
\* that read Ready or Waiting.
TransactionGate ==
    /\ [][lastTx'.call # lastTx.call =>
             IF status \in {"Ready", "Waiting"}
             THEN lastTx'.code # 503 /\ txPc' = "run"
             ELSE /\ lastTx'.code = 503
                  /\ ~lastTx'.ran
                  /\ txPc' = "idle"
                  /\ members' = members
                  /\ schemaRow' = schemaRow]_vars
    /\ [][(txPc = "run" /\ txPc' = "idle") =>
             lastTx.seen \in {"Ready", "Waiting"}]_vars

\* A call made while the database was starting has been refused.
RefusedWhileStarting ==
    /\ lastTx.seen = "Starting"
    /\ lastTx.code = 503
    /\ ~lastTx.ran
    /\ txPc = "idle"

(***************************************************************************)
(* Membership: SpecMem and its properties                                  *)
(***************************************************************************)
NextMem ==
    \/ \E r \in Requests, name \in Peers, secret \in Secrets :
          AdmitBegin(r, name, secret)
    \/ \E r \in Requests : AdmitLookup(r)
    \/ \E r \in Requests, ok \in BOOLEAN : AdmitInsert(r, ok)
    \/ \E r \in Requests, ok \in BOOLEAN : AdmitDelete(r, ok)
    \/ \E r \in Requests, ok \in BOOLEAN : AdmitCommit(r, ok)
    \/ \E target \in Names : Remove(target)
    \/ \E n \in Names, role \in Roles \ {"PENDING"} : HeartbeatPromote(n, role)
    \/ \E n \in Names : TrustAdd(n)

\* Admissions, removals and role assignment on one cluster.
SpecMem == InitMem /\ [][NextMem]_vars

\* The requests that presented secret s and were admitted.
Admitted(s) == {r \in Requests : admRes[r] = "ok" /\ admReq[r].secret = s}

\* C1: for every secret at most one admission commits; the commit leaves
\* the member row in the table and no token row with that secret; and an
\* admission that looks the token up after another one has committed with
\* the same secret gets NotFound and leaves the tables as they were.
TokenRedeemedOnce ==
    /\ [](\A s \in Secrets : Cardinality(Admitted(s)) <= 1)
    /\ [][\A r \in Requests :
             (admRes'[r] = "ok" /\ admRes[r] # "ok") =>
                /\ admReq[r].name \in DOMAIN members'
                /\ admReq[r].name \notin DOMAIN snapshot.members
                /\ \A t \in tokens' : t.secret # admReq[r].secret
                /\ \E t \in snapshot.tokens : t.secret = admReq[r].secret]_vars
    /\ [][\A r \in Requests :
             (/\ admPc[r] = "lookup"
              /\ admPc'[r] # "lookup"
              /\ Admitted(admReq[r].secret) # {}) =>
                /\ admRes'[r] = "NotFound"
                /\ members' = members
                /\ tokens' = tokens]_vars

\* A second admission with a redeemed secret has been answered NotFound.
SecondRedemptionNotFound ==
    \E r \in Requests, q \in Requests :
        /\ r # q
        /\ admReq[r] = admReq[q]
        /\ admRes[q] = "ok"
        /\ admRes[r] = "NotFound"
        /\ txOwner = 0
        /\ admReq[q].name \in DOMAIN members

NextAuth ==
    \/ \E kind \in {"bootstrap", "join"}, name \in ControlNames,
          address \in Addresses : CtlStart(1, kind, name, address)
    \/ CtlReloadServer(1)
    \/ \E ok \in BOOLEAN : CtlToken(1, ok)
    \/ ApiReloadCluster(1)
    \/ \E ok \in BOOLEAN : ApiRestartListeners(1, ok)
    \/ ApiOpen(1)
    \/ \E ok \in BOOLEAN : ApiOpened(1, ok)
    \/ CtlFail(1)
    \/ \E remote \in {"@", "peer"}, listener \in {"unix", "core", "ext"},
          host \in HostHeaders, certs \in SUBSET PeerCerts :
          AuthRequest(remote, listener, host, certs)

SpecAuth == InitAuth /\ [][NextAuth]_vars

\* POST /control requests in flight together, and network requests that
\* present no certificate.
NextInit ==
    \/ \E c \in Ctl, kind \in {"bootstrap", "join"}, name \in ControlNames :
          CtlStart(c, kind, name, <<"10.0.0.1", "", "8443">>)
    \/ \E c \in Ctl : CtlReloadServer(c)
    \/ \E c \in Ctl, ok \in BOOLEAN : CtlToken(c, ok)
    \/ \E c \in Ctl : ApiReloadCluster(c)
    \/ \E c \in Ctl, ok \in BOOLEAN : ApiRestartListeners(c, ok)
    \/ \E c \in Ctl : ApiOpen(c)
    \/ \E c \in Ctl, ok \in BOOLEAN : ApiOpened(c, ok)
    \/ \E c \in Ctl : CtlFail(c)
    \/ \E listener \in {"core", "ext"} :
          AuthRequest("peer", listener, <<"10.0.0.1", "", "8443">>, {})

SpecInit == InitAuth /\ [][NextInit]_vars

\* The advertised address as a Host header carries it: without the zone.
Zoneless(address) == <<address[1], "", address[3]>>

\* C6 as stated: once the core listener serves with the cluster
\* certificate, a request is trusted iff it came over the control socket
\* or its Host equals the advertised address and one of its certificates
\* is trusted; any other Host gives the invalid-host error, and a matching
\* Host without a trusted certificate gives untrusted and no error.
AuthenticateIffHostEqual ==
    (lastAuth.called /\ lastAuth.coreCluster) =>
        LET local == lastAuth.remote = "@"
            match == lastAuth.host = lastAuth.hostAddress
            cert == lastAuth.certs \cap TrustedCerts # {}
        IN /\ lastAuth.trusted <=> (local \/ (match /\ cert))
           /\ (~local /\ ~match) =>
                 (~lastAuth.trusted /\ lastAuth.err = "ErrInvalidHost")
           /\ (~local /\ match /\ ~cert) =>
                 (~lastAuth.trusted /\ lastAuth.err = "nil")

\* C6: once the core listener serves with the cluster certificate, a
\* request is trusted iff it came over the control socket or its Host
\* equals the advertised address with the IPv6 zone removed and one of its
\* certificates is trusted; any other Host gives the invalid-host error,
\* and a matching Host without a trusted certificate gives untrusted and no
\* error.
AuthenticateIffHostZoneless ==
    (lastAuth.called /\ lastAuth.coreCluster) =>
        LET local == lastAuth.remote = "@"
            match == lastAuth.host = Zoneless(lastAuth.hostAddress)
            cert == lastAuth.certs \cap TrustedCerts # {}
        IN /\ lastAuth.trusted <=> (local \/ (match /\ cert))
           /\ (~local /\ ~match) =>
                 (~lastAuth.trusted /\ lastAuth.err = "ErrInvalidHost")
           /\ (~local /\ match /\ ~cert) =>
                 (~lastAuth.trusted /\ lastAuth.err = "nil")

\* An initialised member with a zoned address has trusted a network request
\* by its certificate, the Host being the address without the zone.
TrustedByCertificate ==
    /\ lastAuth.called
    /\ lastAuth.coreCluster
    /\ lastAuth.remote # "@"
    /\ lastAuth.hostAddress[2] # ""
    /\ lastAuth.host = Zoneless(lastAuth.hostAddress)
    /\ lastAuth.trusted
    /\ lastAuth.via = "cert"

\* C7: a request on the core listener while it serves with the server
\* certificate is trusted; and once the core listener has been given the
\* cluster certificate no network request is trusted by the pre-init
\* exception.
PreInitConfined ==
    lastAuth.called =>
        /\ (lastAuth.listener = "core" /\ lastAuth.coreServer) =>
              lastAuth.trusted
        /\ lastAuth.via = "preinit" => ~lastAuth.swapped

\* The database is Ready, the core listener serves with a server
\* certificate again, and a network request without a certificate has been
\* trusted by the pre-init exception.
TrustedAfterInitialisation ==
    /\ lastAuth.called
    /\ lastAuth.status = "Ready"
    /\ lastAuth.swapped
    /\ lastAuth.via = "preinit"
    /\ lastAuth.certs = {}
    /\ daemon = "running"
    /\ \A c \in Ctl : ctlPc[c] = "done"

(***************************************************************************)
(* Join: SpecJoin and its properties                                       *)
(***************************************************************************)
NextJoin ==
    \/ \E ok \in BOOLEAN, matches \in BOOLEAN : joinWithTokenBegin(ok, matches)
    \/ joinWithTokenTry
    \/ joinWithTokenReturn
    \/ \E ok \in BOOLEAN : setupLocalMember(ok)
    \/ \E ok \in BOOLEAN : JoinStartAPI(ok)
    \/ \E ok \in BOOLEAN : JoinPreJoin(ok)
    \/ \E acks \in SUBSET Peers : JoinPropagateTrust(acks)
    \/ \E out \in [Peers -> HookAnswers] : JoinNotify(out)
    \/ \E ok \in BOOLEAN : JoinPostJoin(ok)
    \/ \E hookOk \in BOOLEAN,
          outcome \in {"unreachable", "deleteFailed", "deleted"} :
          JoinRevert(hookOk, outcome)

SpecJoin == InitJoin /\ [][NextJoin]_vars

\* The candidates whose admission committed.
Committed == {k \in 1..Len(jLog) : jLog[k].committed}

TokenWasLive == tokens # {} \/ Committed # {}

\* The loop of joinWithToken is over.
LoopOver == jPc \notin {"idle", "try"} /\ jErr # "decode"

\* The candidates are taken in token order; a candidate that fails with a
\* transport or peer error is followed by the next one; the loop ends at
\* the first candidate that admits.
CandidatesInOrder ==
    /\ \A k \in 1..Len(jLog) : jLog[k].cand = k
    /\ \A k \in 1..Len(jLog) :
          jLog[k].res \notin {"admitted", "fingerprint"} =>
             (Len(jLog) > k \/ jPc = "try" \/ k = MaxCand)
    /\ jInfo # 0 =>
          /\ Len(jLog) = jInfo
          /\ jLog[jInfo].res = "admitted"
          /\ \A k \in 1..(jInfo - 1) : jLog[k].res # "admitted"

\* C12 as stated: the candidates are tried in token order, the loop moves
\* on after an error and stops at the first candidate that admits; and
\* whenever some candidate is reachable and admits the token, the join is
\* admitted by the first such candidate, whatever the earlier ones did
\* short of consuming the token.
JoinAdmittedIfAnyAdmits ==
    /\ CandidatesInOrder
    /\ LoopOver =>
          \A i \in Candidates :
             (/\ peerMode[i] = "ok"
              /\ TokenWasLive
              /\ \A j \in 1..(i - 1) : peerMode[j] \notin {"ok", "lossy"}) =>
                jInfo = i

\* C12: the candidates are tried in token order, the loop moves on after a
\* transport or peer error and stops at the first candidate that admits;
\* a candidate whose certificate does not have the token's fingerprint
\* ends the join at once, no request sent to it or to any later candidate;
\* and the join is admitted by the first candidate that admits when every
\* earlier one was down or answered with an error.
JoinAdmittedIfEarlierFailSoft ==
    /\ CandidatesInOrder
    /\ jErr = "fingerprint" =>
          /\ jInfo = 0
          /\ Len(jLog) >= 1
          /\ jLog[Len(jLog)].res = "fingerprint"
          /\ ~jLog[Len(jLog)].sent
          /\ peerMode[Len(jLog)] = "badcert"
    /\ LoopOver =>
          \A i \in Candidates :
             (/\ peerMode[i] = "ok"
              /\ TokenWasLive
              /\ \A j \in 1..(i - 1) : peerMode[j] \in {"down", "error"}) =>
                jInfo = i

\* The first candidate was down and a later one has admitted the joiner.
AdmittedByLaterCandidate ==
    /\ jInfo >= 2
    /\ peerMode[1] = "down"
    /\ ~jLog[1].sent
    /\ LocalName \in DOMAIN members

\* C13 as stated: StartAPI of a joiner succeeds only if a member accepted
\* the trust entry; when none did it returns the error, and once POST
\* /control has returned, the join is unwound: the joiner's row is gone
\* and the daemon has been re-executed.
NoConfirmationUnwinds ==
    /\ (jPc = "done" /\ jErr = "nil") => peerTrust # {}
    /\ (jPc = "done" /\ jErr = "noConfirmation") =>
          /\ LocalName \notin DOMAIN members
          /\ daemon = "exited"

\* C13: the trust entry is offered to every other member of the trust
\* store; StartAPI goes on only if one accepted it and returns the error
\* otherwise; a join that succeeded has a member holding the entry; and
\* the reverter of an admitted joiner either has the joiner's row deleted
\* and the daemon re-executed, or, when the admitting member cannot be
\* reached or the delete fails, changes nothing.
NoConfirmationIsAnError ==
    /\ []((jPc = "done" /\ jErr = "nil") => peerTrust # {})
    /\ [][(jPc = "propagate" /\ jPc' # "propagate") =>
             IF peerTrust' # {}
             THEN jPc' = "notify" /\ jErr' = jErr
             ELSE jPc' = "revert" /\ jErr' = "noConfirmation"]_vars
    /\ [][(jPc = "revert" /\ jPc' = "done" /\ jInfo # 0) =>
             \/ /\ LocalName \notin DOMAIN members'
                /\ daemon' = "exited"
             \/ /\ members' = members
                /\ daemon' = daemon]_vars

\* No member accepted the trust entry, POST /control has returned the
\* error, and the joiner is still a member with its database Ready.
UnconfirmedJoinerRemains ==
    /\ jPc = "done"
    /\ jErr = "noConfirmation"
    /\ peerTrust = {}
    /\ LocalName \in DOMAIN members
    /\ status = "Ready"
    /\ daemon = "running"

\* C14: a POST /control that arrives while the database status is not
\* NotReady is refused, and the refusal leaves the daemon's address, both
\* server certificates, the trust store, the listeners, the database
\* status and the hooks run so far as they were.
ControlRefusedUnlessNotReady ==
    [][\A c \in Ctl :
          (ctlPc[c] = "idle" /\ ctlPc'[c] # "idle" /\ status # "NotReady") =>
             /\ ctlPc'[c] = "done"
             /\ ctlReq' = ctlReq
             /\ hostAddress' = hostAddress
             /\ serverCert' = serverCert
             /\ diskServerCert' = diskServerCert
             /\ trust' = trust
             /\ endpoints' = endpoints
             /\ status' = status
             /\ hookLog' = hookLog
             /\ daemon' = daemon]_vars

\* A request that arrived after a bootstrap made the database Ready has
\* been refused, the bootstrap's address, trust entry and hook in place.
ControlRefusedAfterBootstrap ==
    \E c \in Ctl, b \in Ctl :
        /\ ctlPc[c] = "done"
        /\ ctlReq[c].kind = ""
        /\ ctlPc[b] = "done"
        /\ ctlReq[b].kind = "bootstrap"
        /\ status = "Ready"
        /\ trust # {}
        /\ hookLog = {"PreInit"}
        /\ daemon = "running"

(***************************************************************************)
(* Run, stop and GET /ready: SpecRun and its properties                    *)
(***************************************************************************)
NextRun ==
    \/ \E stage \in {"store", "db", "listen", "ok"} : RunInit(stage)
    \/ \E ok \in BOOLEAN : RunOnStart(ok)
    \/ \E s \in Stoppers : RunRevert(s)
    \/ \E s \in Stoppers : StopCall(s)
    \/ StopCancel
    \/ \E ok \in BOOLEAN : StopDatabase(ok)
    \/ \E ok \in BOOLEAN : StopListeners(ok)
    \/ \E s \in Stoppers : StopReturn(s)
    \/ ReadyCheckContext
    \/ ReadySelect

SpecRun == InitRun /\ [][NextRun]_vars

\* How many times the stop sequence has been entered.
Begun == Cardinality({k \in 1..Len(stopLog) : stopLog[k] = "begin"})

\* C15: the stop sequence is entered at most once and at most one caller
\* is inside it; a caller has returned only when that one execution is
\* over, exactly one execution then having taken place; and every caller
\* that has returned holds the value of that execution.
StopRunsOnce ==
    /\ Begun <= 1
    /\ Cardinality({s \in Stoppers : stopPc[s] = "body"}) <= 1
    /\ \A s \in Stoppers :
          stopPc[s] = "returned" =>
             /\ Begun = 1
             /\ oncePc = "done"
             /\ bodyPc = "end"
             /\ stopRes[s] = onceVal
    /\ \A s \in Stoppers, t \in Stoppers :
          (stopPc[s] = "returned" /\ stopPc[t] = "returned") =>
             stopRes[s] = stopRes[t]

\* Every caller has returned with the database's error, after one
\* execution of the stop sequence.
AllStoppersReturned ==
    /\ \A s \in Stoppers : stopPc[s] = "returned" /\ stopRes[s] = "dbErr"
    /\ Begun = 1
    /\ listeners = "closed"

\* Where a step stands in the stop sequence's log, 0 when it is not there.
StepAt(e) ==
    IF \E k \in 1..Len(stopLog) : stopLog[k] = e
    THEN CHOOSE k \in 1..Len(stopLog) : stopLog[k] = e
    ELSE 0

\* C16: the shutdown context is cancelled before the database is stopped
\* and the database is stopped before the listeners are closed; the
\* listeners are closed only after the cancel and, when there is a
\* database, after its Stop has returned; and once the stop sequence is
\* over the listeners have been told to close, whether or not the
\* database's Stop returned an error.
StopSequenceOrdered ==
    /\ StepAt("db") # 0 =>
          (StepAt("cancel") # 0 /\ StepAt("cancel") < StepAt("db"))
    /\ StepAt("down") # 0 =>
          /\ StepAt("cancel") # 0 /\ StepAt("cancel") < StepAt("down")
          /\ dbHandle # "nil" =>
                (StepAt("db") # 0 /\ StepAt("db") < StepAt("down"))
    /\ listeners \in {"closed", "closeFailed"} =>
          /\ shutdownCancelled
          /\ dbHandle # "open"
          /\ dbHandle # "nil" => (status = "Offline" /\ cancelled)
    /\ (oncePc = "done" /\ listeners # "nil") =>
          /\ StepAt("down") # 0
          /\ listeners \in {"closed", "closeFailed"}
    /\ (oncePc = "done" /\ onceVal = "dbErr") => listeners \in {"nil", "closed"}

\* The database's Stop has failed and the listeners are closed all the
\* same, the callers getting the database's error.
ListenersClosedAfterDatabaseError ==
    /\ oncePc = "done"
    /\ dqliteErr
    /\ dbHandle = "closeFailed"
    /\ listeners = "closed"
    /\ onceVal = "dbErr"
    /\ stopLog = <<"begin", "cancel", "db", "down">>

NextTLS ==
    \/ \E ok \in BOOLEAN : NetworkListen(ok)
    \/ NetworkClose
    \/ NetworkUpdateTLS
    \/ ConfigLock
    \/ ConfigAssign
    \/ \E a \in Acceptors : AcceptCall(a)
    \/ \E a \in Acceptors : AcceptInner(a)
    \/ \E a \in Acceptors : AcceptRLock(a)
    \/ \E a \in Acceptors : AcceptRead(a)
    \/ \E a \in Acceptors : AcceptReturn(a)

SpecTLS == InitTLS /\ [][NextTLS]_vars

\* C17: a connection is wrapped with the configuration that is current
\* when its Accept returns; that configuration is the one of the last
\* Config that had returned when Accept was called, or a later one; a
\* Config never writes while an Accept holds the configuration it read;
\* and a returned connection keeps its configuration through later
\* Configs.
AcceptUsesCurrentConfig ==
    /\ [](\A a \in Acceptors :
             lastConn[a].valid =>
                /\ lastConn[a].cfg = lastConn[a].atReturn
                /\ lastConn[a].cfg >= lastConn[a].configAtCall)
    /\ [](~(lWrite /\ lRead # {}))
    /\ [](\A a \in Acceptors : accPc[a] = "return" => accCfg[a] = lConfig)
    /\ [][\A a \in Acceptors :
             (lConfig' # lConfig /\ lastConn[a].valid) =>
                lastConn'[a] = lastConn[a]]_vars

\* A connection has been accepted with the second certificate while
\* another one, accepted before the swap, keeps the first.
ConnectionsAcrossSwap ==
    \E a \in Acceptors, b \in Acceptors :
        /\ lastConn[a].valid /\ lastConn[a].cfg = 1
        /\ lastConn[b].valid /\ lastConn[b].cfg = 2
        /\ lastConn[b].configAtCall = 2
        /\ lConfig = 2

\* C18: whatever the state of the endpoint when UpdateTLS(cert) is called,
\* once it has returned TLS() reports cert and every connection whose
\* Accept is called afterwards is served with cert or a later one.
UpdateTLSAlwaysTakesEffect ==
    /\ updPc = "idle" => nCert = lastUpdateDone
    /\ \A a \in Acceptors :
          lastConn[a].valid => lastConn[a].cfg >= lastConn[a].updateAtCall

\* UpdateTLS has been called on the endpoint before it was bound; the
\* endpoint is bound since, reports its first certificate and has served a
\* connection with it.
UpdateBeforeListenLost ==
    \E a \in Acceptors :
        /\ lastConn[a].valid
        /\ lastConn[a].updateAtCall = 1
        /\ lastConn[a].cfg = 0
        /\ nCert = 0
        /\ lastUpdateDone = 1
        /\ nListener = "bound"

(***************************************************************************)
(* PATCH /database: SpecNotify and its properties                          *)
(***************************************************************************)
NextNotify ==
    \/ CoordinatorStep
    \/ Stop
    \/ \E p \in Peers, b \in Binaries : PeerPublish(p, b)
    \/ \E n \in Notifiers, valid \in BOOLEAN : databasePatch(n, valid)
    \/ \E n \in Notifiers : databasePatchNotify(n)

\* The coordinator with concurrent PATCH /database requests.
SpecNotify == InitNotify /\ [][NextNotify]_vars

\* C20: whatever the coordinator is doing, a NotifyUpgraded call returns in
\* the step that runs its select: no caller is left waiting for a receiver,
\* and the notification is delivered exactly when the coordinator was
\* blocked in waitUpgrade.
NotifyUpgradedNeverBlocks ==
    /\ [](\A n \in Notifiers :
             /\ notPc[n] # "blocked"
             /\ notRes[n].returned => notPc[n] = "idle"
             /\ notRes[n].returned =>
                   (notRes[n].sent <=> notRes[n].waiting))
    /\ [][\A n \in Notifiers :
             (notPc[n] = "notify" /\ notPc'[n] # notPc[n]) =>
                notRes'[n].returned]_vars
    /\ [](\A n \in Notifiers :
             notPc[n] = "notify" => ENABLED databasePatchNotify(n))

\* Two requests have been answered: the notification of one woke the
\* coordinator, that of the other was dropped after the database stopped.
NotifiedAndDropped ==
    \E a \in Notifiers, b \in Notifiers :
        /\ notRes[a].returned /\ notRes[a].sent
        /\ notRes[b].returned /\ ~notRes[b].sent
        /\ notRes[b].stopped

\* C21: a notification sent while none is pending is kept for the
\* coordinator's next wait: the coordinator is never blocked in waitUpgrade
\* after a NotifyUpgraded call that returned without delivering.
NotificationKeptForNextWait ==
    pc = "waiting" =>
        \A n \in Notifiers : ~(notRes[n].returned /\ ~notRes[n].sent)

\* A NotifyUpgraded call returned while the coordinator was running the
\* fence, nothing was queued, and the coordinator is now blocked in
\* waitUpgrade until its timer fires.
NotificationLostBetweenWaits ==
    /\ pc = "waiting"
    /\ ~cancelled
    /\ \E n \in Notifiers :
          /\ notRes[n].returned
          /\ ~notRes[n].sent
          /\ ~notRes[n].stopped

(***************************************************************************)
(* Hooks of POST /control and of Run                                       *)
(***************************************************************************)
\* The request is over and its PreInit hook returned an error.
PreInitFailed(c) ==
    /\ ctlPc[c] = "done"
    /\ ctlReq[c].kind # ""
    /\ ~ctlReq[c].preInit

\* C22: after a POST /control whose PreInit hook failed StartAPI
\* has not run and the advertised address, the certificates and the trust
\* store are as before the request.
PreInitFailureRestoresState ==
    PreInitFailed(1) =>
        /\ ~swapped
        /\ hostAddress = ctlReq[1].before
        /\ serverCert = diskServerCert
        /\ serverCert.gen = 0
        /\ trust = {}

\* A POST /control ended on its PreInit error and the daemon advertises the
\* address of that request.
PreInitFailedAddressKept ==
    /\ PreInitFailed(1)
    /\ hostAddress # ctlReq[1].before
    /\ hookLog = {"PreInit"}

\* The positions in jSteps of a step, and of its failures.
Ran(step) == {k \in 1..Len(jSteps) : jSteps[k].step = step}
Failed(step) == {k \in Ran(step) : ~jSteps[k].ok}

\* C23: whichever members' OnNewMember hooks fail, all of them included,
\* StartAPI does not fail for it.
NewMemberFailuresNeverAbort ==
    jNotify # <<>> => jErr # "notify"

\* The OnNewMember hook failed on every member and StartAPI returned an
\* error for it; the join has been unwound.
JoinAbortedByNewMemberFailures ==
    /\ jPc = "done"
    /\ jErr = "notify"
    /\ jNotify # <<>>
    /\ \A p \in Peers : jNotify[p] = "error"

\* C24 as stated: after an error of the PostJoin hook POST /control reports
\* success and no unwind has started.
PostJoinErrorOnlyLogged ==
    (Failed("PostJoin") # {} /\ jPc = "done") =>
        /\ jErr = "nil"
        /\ Ran("PreRemove") = {}
        /\ Ran("DELETE") = {}
        /\ Ran("reset") = {}

\* C24: an error of the PostJoin hook is the error of StartAPI and of POST
\* /control, and starts the unwind of the join: the PreRemove hook runs and
\* the admitting member is asked to delete the joiner.
PostJoinErrorAbortsJoin ==
    Failed("PostJoin") # {} =>
        /\ jErr = "postJoin"
        /\ jPc \in {"revert", "done"}
        /\ jPc = "done" => Ran("PreRemove") # {}
        /\ status = "Ready"

\* PostJoin failed after the join had completed, and the unwind removed
\* the joiner from the cluster.
JoinUndoneAfterPostJoin ==
    /\ jPc = "done"
    /\ Failed("PostJoin") # {}
    /\ Ran("DELETE") \ Failed("DELETE") # {}
    /\ daemon = "exited"
    /\ LocalName \notin DOMAIN members

\* C26 as stated: PreJoin runs before db.Join, and a PreJoin error aborts
\* the join before db.Join is called.
PreJoinBeforeDatabaseJoin ==
    /\ \A i \in Ran("PreJoin"), k \in Ran("dbJoin") : i < k
    /\ Failed("PreJoin") # {} => Ran("dbJoin") = {}

\* C26: PreJoin runs once, after db.Join returned without error (the member
\* is in the replicated engine and its fence has passed) and before the
\* trust entry is propagated; a PreJoin error aborts the join there.
PreJoinAfterDatabaseJoin ==
    /\ \A i \in Ran("PreJoin") :
          /\ i > 1
          /\ jSteps[i - 1] = [step |-> "dbJoin", ok |-> TRUE]
    /\ jPc \in {"propagate", "notify", "postjoin"} =>
          Ran("PreJoin") # {} /\ Failed("PreJoin") = {}
    /\ Failed("PreJoin") # {} =>
          /\ jErr = "preJoin"
          /\ jPc \in {"revert", "done"}
          /\ status = "Ready"
          /\ peerTrust = {}

\* PreJoin failed on a member that had already joined the database.
PreJoinFailedAfterDatabaseJoin ==
    /\ Failed("PreJoin") # {}
    /\ Ran("dbJoin") # {}
    /\ status = "Ready"
    /\ jPc = "revert"

\* The join failed after a member had admitted the joiner, and the
\* reverter has run.
UnwoundAfterAdmission == jPc = "done" /\ jErr # "nil" /\ jInfo # 0

OnStartErrorOnlyLogged ==
    "OnStartError" \in hookLog =>
        /\ readyClosed
        /\ runPc = "serving"

\* C25: an error of the OnStart hook aborts the start-up: the ready
\* channel is never closed, GET /ready never answers 200, and Run returns
\* the error after its reverter has called d.stop().
OnStartErrorAbortsRun ==
    /\ []("OnStartError" \in hookLog =>
             /\ ~readyClosed
             /\ runPc \in {"reverting", "returned"}
             /\ runPc = "returned" => oncePc # "new"
             /\ lastReady.called => lastReady.code = 503)
    /\ [](readyClosed => "OnStartError" \notin hookLog)
    /\ [][(runPc = "onStart" /\ runPc' = "serving") =>
             (readyClosed' /\ hookLog' = hookLog \cup {"OnStart"})]_vars

\* OnStart failed, Run has returned, the stop sequence has run to its end
\* and GET /ready answered 503.
StoppedAfterOnStartError ==
    /\ "OnStartError" \in hookLog
    /\ runPc = "returned"
    /\ oncePc = "done"
    /\ listeners # "up"
    /\ lastReady.called
    /\ lastReady.code = 503

(***************************************************************************)
(* Binding the endpoints: SpecListen and its properties                    *)
(***************************************************************************)
\* Daemons about to start on one state directory and one address.
InitListen ==
    /\ InitCoordinator
    /\ InitMembershipIdle
    /\ InitDaemonIdle
    /\ InitExtIdle
    /\ members = EmptyTable
    /\ schemaRow = [int |-> 0, ext |-> 0]

NextListen ==
    \/ \E d \in Daemons : SocketDial(d)
    \/ \E d \in Daemons : \E ok \in BOOLEAN : SocketRemoveStale(d, ok)
    \/ \E d \in Daemons : \E access \in BOOLEAN : SocketBind(d, access)
    \/ \E d \in Daemons : SocketClose(d)
    \/ \E d \in Daemons : DaemonKilled(d)
    \/ \E d \in Daemons : NetworkListenAddr(d)
    \/ \E d \in Daemons : NetworkCloseAddr(d)

SpecListen == InitListen /\ [][NextListen]_vars

\* C28: binding an endpoint that a live listener holds fails and leaves the
\* holder alone: at most one daemon holds the control socket of the state
\* directory and at most one the address, the path names the socket of the
\* daemon that serves it, and a Listen that found a live listener changed
\* nothing -- also when the daemons start concurrently.
ListenNeverDisturbsHolder ==
    /\ Cardinality(sockOpen) <= 1
    /\ \A d \in sockOpen : sockFile = d
    /\ \A d \in Daemons : skPc[d] = "refused" => d \notin sockOpen
    /\ \A d \in Daemons : (nwPc[d] = "serving") <=> (addrHolder = d)

\* Two daemons started together both serve the control socket of the state
\* directory; the path names the socket of the later one.
SocketHolderOrphaned ==
    \E a, b \in Daemons :
        /\ a # b
        /\ skPc[a] = "serving" /\ skPc[b] = "serving"
        /\ {a, b} \subseteq sockOpen
        /\ sockFile = b

(***************************************************************************)
(* The engine transport: SpecDial and its properties                       *)
(***************************************************************************)
InitDial ==
    /\ InitCoordinator
    /\ InitMembershipIdle
    /\ InitDaemonIdle
    /\ InitExtIdle
    /\ members = EmptyTable
    /\ schemaRow = [int |-> 0, ext |-> 0]

NextDial ==
    \/ \E k \in Dials : DialSend(k)
    \/ \E k \in Dials : \E v \in VersionHeaders : \E u \in UpgradeHeaders :
          ClientRequest(k, v, u)
    \/ \E k \in Dials : DatabasePostAnswer(k)
    \/ \E k \in Dials : \E code \in StatusCodes : \E u \in UpgradeHeaders :
          PeerAnswer(k, code, u)
    \/ \E k \in Dials : DialReceive(k)

SpecDial == InitDial /\ [][NextDial]_vars

\* The version a request announces: none is the version before 1.
announced(req) == Atoi(IF req.version = "" THEN "0" ELSE req.version)

\* C29: the handshake completes between two nodes of this program. The
\* handler answers 400 to a version that does not parse or an Upgrade
\* header other than dqlite, 426 to a version below 1, and 101 with
\* Upgrade: dqlite otherwise; the dialer gives the connection to the
\* engine on 101 with Upgrade: dqlite and on nothing else, where it
\* returns an error and closes the connection.
HandshakeCompletes ==
    \A k \in Dials :
        /\ hs[k].by = "handler" =>
              IF ~announced(hs[k].req).ok \/ hs[k].req.upgrade # "dqlite"
              THEN hs[k].resp.code = 400
              ELSE IF announced(hs[k].req).n < 1
              THEN hs[k].resp.code = 426
              ELSE hs[k].resp = [code |-> 101, upgrade |-> "dqlite"]
        /\ hs[k].pc = "done" =>
              IF hs[k].resp = [code |-> 101, upgrade |-> "dqlite"]
              THEN hs[k].conn = "engine" /\ hs[k].err = "nil"
              ELSE hs[k].conn = "closed" /\ hs[k].err # "nil"
        /\ (hs[k].pc = "done" /\ hs[k].by = "handler") =>
              hs[k].conn = "engine"

\* A dial of this program answered by this program's handler has failed:
\* the answer was a 200 and the connection has been closed.
DialRefusedByOwnHandler ==
    \E k \in Dials :
        /\ hs[k].pc = "done"
        /\ hs[k].from = "dialer" /\ hs[k].by = "handler"
        /\ hs[k].resp.code = 200
        /\ hs[k].conn = "closed"
        /\ hs[k].err = "Dialing failed"

(***************************************************************************)
(* The API extension check: SpecApi and its properties                     *)
(***************************************************************************)
\* A node about to compare its list with those of one or more members.
InitApi ==
    /\ InitCoordinator
    /\ InitMembershipIdle
    /\ InitDaemonIdle
    /\ InitJoinIdle
    /\ InitRunIdle
    /\ InitNetwork
    /\ InitNotifyIdle
    /\ InitListenIdle
    /\ InitDialIdle
    /\ tab = NoTable
    /\ InitStopIdle
    /\ InitServeIdle
    /\ members = EmptyTable
    /\ schemaRow = [int |-> 0, ext |-> 0]
    /\ \E l \in LabelLists : \E n \in 1..MaxOthers :
          \E ls \in [1..n -> MemberLists] :
             apx = [NoCheck EXCEPT !.pc = "idle", !.local = l, !.lists = ls]

NextApi ==
    \/ OpenCheckExtensions
    \/ \E i \in 1..MaxOthers : \E l \in MemberLists : MemberRestarted(i, l)

SpecApi == InitApi /\ [][NextApi]_vars

\* C30 as stated: a label mismatch at a position the local list and a
\* member's list share is an error whichever is longer, and with no
\* mismatch and no longer list a member with a proper prefix makes the
\* node wait.
ExtensionMismatchIsError ==
    LET others == 1..Len(apx.lists)
        mismatch == \E i \in others : Mismatch(apx.local, apx.lists[i])
        longer == \E i \in others :
                     ExtVersion(apx.lists[i]) > ExtVersion(apx.local)
        shorter == \E i \in others :
                      ExtVersion(apx.lists[i]) < ExtVersion(apx.local)
    IN  apx.pc = "checked" =>
            /\ mismatch => apx.res.err
            /\ (~mismatch /\ ~longer /\ shorter) =>
                  (apx.res.behind /\ ~apx.res.err)

\* C30: the lists are compared by length, and label by label only at
\* equal length. The check fails exactly when some member's list is
\* longer than the local one or as long with a different label; otherwise
\* the node waits exactly when some member's list is absent or shorter,
\* whatever its labels.
ExtensionsComparedByLength ==
    apx.pc = "checked" =>
        /\ apx.res.err <=>
              \E i \in 1..Len(apx.lists) :
                 \/ ExtVersion(apx.lists[i]) > ExtVersion(apx.local)
                 \/ /\ ExtVersion(apx.lists[i]) = ExtVersion(apx.local)
                    /\ Mismatch(apx.local, apx.lists[i])
        /\ apx.res.err => ~apx.res.behind
        /\ ~apx.res.err =>
              (apx.res.behind <=>
                 \E i \in 1..Len(apx.lists) :
                    ExtVersion(apx.lists[i]) < ExtVersion(apx.local))

\* A member's shorter list differs from the local one in a label, and the
\* node waits for it.
MismatchTreatedAsBehind ==
    /\ apx.pc = "checked"
    /\ apx.res.behind /\ ~apx.res.err
    /\ \E i \in 1..Len(apx.lists) :
          /\ Mismatch(apx.local, apx.lists[i])
          /\ ExtVersion(apx.lists[i]) < ExtVersion(apx.local)

(***************************************************************************)
(* Bootstrap, Stop and the heartbeat: further properties of the database   *)
(***************************************************************************)
\* C31: during Bootstrap the fence is skipped. Open compares no versions,
\* the status is never Waiting, Open never returns the graceful abort and
\* never waits on upgradeCh; Open takes the status to Starting and from
\* there to Ready or Offline.
BootstrapSkipsFence ==
    /\ [](bootstrap =>
            /\ ~fence.schemaRead /\ ~fence.apiRead
            /\ status # "Waiting"
            /\ openErr # "graceful"
            /\ ~otherNodesBehind
            /\ pc # "waiting")
    /\ [][(bootstrap /\ status' # status /\ pc' # pc) =>
            \/ pc = "open" /\ status' = "Starting"
            \/ pc = "openReturn" /\ status' \in {"Ready", "Offline"}]_vars

\* A bootstrap has gone through Open and created the member's row.
BootstrappedReady ==
    /\ bootstrap
    /\ pc = "done"
    /\ status = "Ready"
    /\ DOMAIN members = {LocalName}

(***************************************************************************)
(* The member table: SpecTable and its properties                          *)
(***************************************************************************)
InitTable ==
    /\ InitCoordinator
    /\ InitMembershipIdle
    /\ InitDaemonIdle
    /\ InitExtIdle
    /\ members = EmptyTable
    /\ schemaRow = [int |-> 0, ext |-> 0]

NextTable ==
    \/ \E n \in Names : \E a \in Addresses : MemberCreate(n, a)
    \/ \E a \in Addresses : MemberDelete(a)

SpecTable == InitTable /\ [][NextTable]_vars

FingerprintMismatchFailsHard ==
    \A i \in 1..Len(jLog) :
        jLog[i].res = "fingerprint" =>
            /\ ~jLog[i].sent /\ ~jLog[i].committed
            /\ i = Len(jLog)
            /\ jIdx = jLog[i].cand
            /\ jInfo = 0
            /\ jErr = "fingerprint"
            /\ jPc \in {"revert", "done"}

\* The first candidate presented another certificate and the join has
\* ended with the second candidate, which would have admitted the joiner,
\* never tried.
MismatchEndsJoin ==
    /\ Len(jLog) = 1
    /\ jLog[1].res = "fingerprint"
    /\ peerMode[2] = "ok"
    /\ jPc = "done"

(***************************************************************************)
(* DB.Stop and the heartbeat loop: SpecStop, SpecBeat                      *)
(***************************************************************************)
\* The coordinator before its start, in a new cluster or in one whose
\* members each run one of the builds; DB.Stop is called once, at any time.
InitStop ==
    /\ InitCoordinator
    /\ InitMembershipIdle
    /\ InitDaemonIdle
    /\ InitExtIdle
    /\ members \in PopulatedTables(BinaryRows) \cup {EmptyTable}
    /\ schemaRow = [int |-> 0, ext |-> 0]

HeartbeatStep ==
    \/ loopHeartbeat
    \/ heartbeat
    \/ heartbeatRound
    \/ heartbeatSleep

NextStop ==
    \/ CoordinatorStep
    \/ StopBegin
    \/ StopCloseDb
    \/ \E ok \in BOOLEAN : StopCloseEngine(ok)
    \/ HeartbeatStep

SpecStop == InitStop /\ [][NextStop]_vars

\* The heartbeat goroutine keeps running and its sleep ends: weak fairness
\* of its steps. Nothing is assumed of Open or of Stop.
SpecBeat == InitStop /\ [][NextStop]_vars /\ WF_vars(HeartbeatStep)

\* C34: once the context is cancelled and DB.Stop has returned, the
\* heartbeat loop, if it was started, eventually ends, and it begins no
\* heartbeat round any more.
HeartbeatEndsWithShutdown ==
    /\ (dst.pc = "returned" /\ hb # "none") ~> (hb = "ended")
    /\ [][dst.pc = "returned" => ~(hb = "heartbeat" /\ hb' = "round")]_vars

\* DB.Stop has returned on a Ready database and the heartbeat loop is
\* about to run heartbeat again.
HeartbeatLoopOutlivesStop ==
    /\ dst.pc = "returned"
    /\ dst.wasReady
    /\ status = "Offline"
    /\ hb = "heartbeat"

\* C35: once DB.Stop has set the status to Offline it stays Offline,
\* whatever Open, the fence wait or the loop of Join do meanwhile.
OfflineTerminalAfterStop ==
    [][(cancelled /\ dst.pc # "idle" /\ status = "Offline")
          => status' = "Offline"]_vars

\* DB.Stop has returned and the status is Ready: an Open that was running
\* when Stop was called has completed.
ReadyAfterStop ==
    /\ dst.pc = "returned"
    /\ cancelled
    /\ pc \in {"returned", "done"}
    /\ status = "Ready"

\* C39: DB.Stop on a database that was Ready closes the SQL handle and
\* then the engine, and the status is Offline when it returns.
StopClosesDatabaseThenEngine ==
    (dst.pc = "returned" /\ dst.wasReady) =>
        /\ dst.log = <<"db", "dqlite">>
        /\ sqlDb = "closed"
        /\ status = "Offline"

\* DB.Stop has returned on a database that was Ready with nothing else
\* running: the engine is closed, the SQL handle was never closed.
StopLeftHandleOpen ==
    /\ dst.pc = "returned" /\ dst.wasReady
    /\ pc = "done"
    /\ status = "Offline"
    /\ dst.log = <<"dqlite">>
    /\ engine = "closed"
    /\ sqlDb = "open"

(***************************************************************************)
(* POST /control: concurrent requests                                      *)
(***************************************************************************)
\* C36: of the POST /control requests handled together at most one passes
\* the status check and goes on to SetConfig, the PreInit hook and
\* StartAPI.
AtMostOneInitialisation ==
    Cardinality({c \in Ctl : ctlReq[c].kind # ""}) <= 1

\* Two POST /control requests have both passed the status check and both
\* are inside StartAPI, in db.Bootstrap or db.Join.
TwoInitialisationsInStartAPI ==
    \E c1, c2 \in Ctl :
        /\ c1 # c2
        /\ ctlPc[c1] = "opening"
        /\ ctlPc[c2] = "opening"

(***************************************************************************)
(* The unwind of a join that no member authorised                          *)
(***************************************************************************)
\* C40: when a join has failed and no admission response was received,
\* the unwind has run no PreRemove hook, reset no local state, re-executed
\* no daemon and sent no DELETE, whether or not the server certificate
\* carried the requested name.
UnauthorisedJoinNotReset ==
    (jPc = "done" /\ jErr # "nil" /\ jInfo = 0) =>
        /\ Ran("PreRemove") = {}
        /\ Ran("reset") = {}
        /\ Ran("DELETE") = {}
        /\ daemon # "exited"

\* A join that no candidate admitted has failed on a daemon whose
\* certificate already carried the requested name, and the unwind has run
\* the PreRemove hook, reset the member and re-executed the daemon.
UnauthorisedJoinReset ==
    /\ jPc = "done"
    /\ jErr # "nil"
    /\ jInfo = 0
    /\ jMatches
    /\ Len(jLog) = MaxCand
    /\ Ran("PreRemove") # {}
    /\ Ran("reset") # {}
    /\ Ran("DELETE") = {}
    /\ daemon = "exited"

(***************************************************************************)
(* Run, the mutex and the exit callback: SpecServe and its properties      *)
(***************************************************************************)
InitServe ==
    /\ InitCoordinator
    /\ InitMembershipIdle
    /\ InitDaemonIdle
    /\ InitExtIdle
    /\ members = EmptyTable
    /\ schemaRow = [int |-> 0, ext |-> 0]

MainStep ==
    \/ RunLock
    \/ \E kind \in ServerNameKinds : RunCopyServers(kind)
    \/ InitRLock
    \/ \E ok \in BOOLEAN : InitValidateEndpoints(ok)
    \/ \E ok \in BOOLEAN : MainOnStart(ok)
    \/ MainSelectDone
    \/ \E k \in Exits : MainSelectReceive(k)

NextServe ==
    \/ MainStep
    \/ ParentCancel
    \/ \E k \in Exits : StateStop(k)
    \/ \E k \in Exits : ExitSend(k)
    \/ StartAPIRLock
    \/ \E ok \in BOOLEAN : StartAPIValidateEndpoints(ok)
    \/ \E c \in Callers : \E op \in LockedCalls : LockedCallBegin(c, op)
    \/ \E c \in Callers : LockedCallAcquire(c)
    \/ \E c \in Callers : LockedCallRelease(c)

SpecServe == InitServe /\ [][NextServe]_vars

\* The goroutine in Run takes its next step whenever it has one: the Go
\* scheduler runs a goroutine that is not blocked.
SpecExit == InitServe /\ [][NextServe]_vars /\ WF_vars(MainStep)

\* C37: extensionServersMu is released on every return path of Run, init
\* and StartAPI: a function that has returned holds no acquisition of its
\* own, so that the mutex is free whenever no call is inside a locked
\* section.
ExtensionServersLockReleased ==
    /\ mainPc = "returned" => muHeld.Run = 0
    /\ mainPc \in {"onStart", "select", "returned"} => muHeld.init = 0
    /\ apiPc = "returned" => muHeld.StartAPI = 0
    /\ (/\ mainPc \in {"onStart", "select", "returned"}
        /\ apiPc # "validate"
        /\ \A c \in Callers : callPc[c].pc # "hold")
          => canLock(extensionServersMu)

\* StartAPI has returned its validation error while the daemon serves,
\* and a later UpdateServers waits for a mutex that nothing running
\* holds; a ReloadCert or ExtensionServers called after it waits as well.
UpdateServersBlockedForEver ==
    /\ mainPc = "select"
    /\ apiPc = "returned"
    /\ muHeld.StartAPI = 1
    /\ extensionServersMu.readers = 1
    /\ callPc[1] = [op |-> "UpdateServers", pc |-> "wait"]
    /\ callPc[2] = [op |-> "ExtensionServers", pc |-> "wait"]
    /\ ~ENABLED LockedCallAcquire(1)
    /\ ~ENABLED LockedCallAcquire(2)

\* C38: every invocation of the exit callback returned by State().Stop
\* eventually returns: its send on shutdownDoneCh is received by Run.
ExitAlwaysReturns ==
    \A k \in Exits : (exitPc[k] = "sending") ~> (exitPc[k] = "returned")

\* An exit callback is blocked in its send and Run has returned, after a
\* failed start-up, a cancelled context or another callback's send.
ExitBlockedAfterRunReturned ==
    \E k \in Exits :
        /\ exitPc[k] = "sending"
        /\ mainPc = "returned"

====
